---- MODULE Spec2Model ----
(***************************************************************************)
(* Verification model of markdowninthemiddle: the response-rewriting       *)
(* transport (internal/middleware), the MITM certificate manager           *)
(* (internal/mitm, with the startup path of cmd/root.go), the proxy server *)
(* with its allow-list filter (internal/proxy), the disk cache with its    *)
(* cache-header decisions (internal/cache), the browser tab pool           *)
(* (internal/browser, with the shutdown path of cmd/root.go), the output   *)
(* writer (internal/output), the template store (internal/templates), the  *)
(* JSON template generator (internal/converter), the configuration layers  *)
(* applied at startup (cmd/root.go), the rewriting of proxied requests,    *)
(* the plain CONNECT tunnel and the connection to the browser.             *)
(*                                                                         *)
(* Byte strings are sequences over a small alphabet, header values are     *)
(* strings or sequences of characters.  The gzip and deflate codecs of the *)
(* Go standard library are replaced by a small framed codec with the same  *)
(* observable structure (magic, payload, end-of-stream, trailer checksum). *)
(***************************************************************************)
EXTENDS Integers, Sequences, FiniteSets, TLC

\* ------------------------------------------------------------------ bounds
MaxWire == 3
MaxLimit == 1
MaxMd == 1

\* ----------------------------------------------------------------- helpers
Min(a, b) == IF a < b THEN a ELSE b

Take(s, n) == SubSeq(s, 1, Min(n, Len(s)))

Drop(s, n) == SubSeq(s, Min(n, Len(s)) + 1, Len(s))

SeqsUpTo(S, n) == UNION {[1..k -> S] : k \in 0..n}

\* strconv.Itoa for non-negative numbers: the decimal digits of n.
Digit == <<"0", "1", "2", "3", "4", "5", "6", "7", "8", "9">>

RECURSIVE Itoa(_)
Itoa(n) == IF n < 10 THEN <<Digit[n + 1]>>
           ELSE Itoa(n \div 10) \o <<Digit[(n % 10) + 1]>>

IsDecimal(s) == Len(s) > 0 /\ \A i \in 1..Len(s) : \E d \in 1..10 : s[i] = Digit[d]

\* strings.ToLower(strings.TrimSpace(s)) on the header tokens the model uses.
ToLower(s) ==
    CASE s = "TEXT/HTML" -> "text/html"
      [] s = "Application/JSON" -> "application/json"
      [] s = "Text/Markdown" -> "text/markdown"
      [] s = "Deflate" -> "deflate"
      [] s = "No-Store" -> "no-store"
      [] s = "Max-Age" -> "max-age"
      [] OTHER -> s

\* ------------------------------------------------------------------ codec
\* Wire bytes.  In a deflate stream "a" is a literal that decodes to "b" and
\* "z" ends the stream; a gzip member is the magic "z", a deflate stream and
\* a one-byte trailer that checks the decoded length.
WireByte == {"a", "z"}

Bodies == SeqsUpTo(WireByte, MaxWire)

GzipMagic == "z"

EndOfStream == "z"

Literal(b) == IF b = "a" THEN "b" ELSE b

Checksum(out) == IF Len(out) % 2 = 0 THEN "z" ELSE "a"

\* flate reader: decode from position i; next is the first unread position.
RECURSIVE InflateFrom(_, _)
InflateFrom(w, i) ==
    IF i > Len(w) THEN [out |-> <<>>, err |-> TRUE, next |-> i]
    ELSE IF w[i] = EndOfStream THEN [out |-> <<>>, err |-> FALSE, next |-> i + 1]
    ELSE LET r == InflateFrom(w, i + 1)
         IN [out |-> <<Literal(w[i])>> \o r.out, err |-> r.err, next |-> r.next]

\* gzip reader after a valid header at position i: payload, trailer, then the
\* next member of a multistream file (or a clean EOF).
RECURSIVE GunzipFrom(_, _)
GunzipFrom(w, i) ==
    LET r == InflateFrom(w, i + 1)
    IN IF r.err THEN [out |-> r.out, err |-> TRUE, next |-> r.next]
       ELSE IF r.next > Len(w) THEN [out |-> r.out, err |-> TRUE, next |-> r.next]
       ELSE IF w[r.next] # Checksum(r.out)
            THEN [out |-> r.out, err |-> TRUE, next |-> r.next + 1]
       ELSE IF r.next + 1 > Len(w)
            THEN [out |-> r.out, err |-> FALSE, next |-> r.next + 1]
       ELSE IF w[r.next + 1] # GzipMagic
            THEN [out |-> r.out, err |-> TRUE, next |-> r.next + 2]
       ELSE LET m == GunzipFrom(w, r.next + 1)
            IN [out |-> r.out \o m.out, err |-> m.err, next |-> m.next]

\* Decompress: which reader wraps the body, or an error.  gzip.NewReader reads
\* the member header from the body before it returns.
Decompress(body, encoding) ==
    LET e == ToLower(encoding)
    IN CASE e = "gzip" ->
              IF Len(body) > 0 /\ body[1] = GzipMagic
              THEN [err |-> FALSE, kind |-> "gzip"]
              ELSE [err |-> TRUE, kind |-> "gzip"]
         [] e = "deflate" -> [err |-> FALSE, kind |-> "deflate"]
         [] e \in {"identity", ""} -> [err |-> FALSE, kind |-> "identity"]
         [] OTHER -> [err |-> TRUE, kind |-> "unsupported"]

\* Everything the chosen reader yields up to EOF or its first error.
ReaderOutput(body, kind) ==
    CASE kind = "gzip" -> GunzipFrom(body, 1)
      [] kind = "deflate" -> InflateFrom(body, 1)
      [] OTHER -> [out |-> body, err |-> FALSE, next |-> Len(body) + 1]

\* ------------------------------------------------ response-rewriting state
VARIABLES
    rp,           \* the ResponseProcessor's configuration
    req,          \* the request of the current call (its Accept header)
    inner,        \* what rp.Inner.RoundTrip returned: [err, resp]
    out,          \* what RoundTrip returned: [err, resp]
    exitPath,     \* which return statement of RoundTrip was taken
    cachePuts,    \* the DiskCache.Put calls of the current call
    outputWrites, \* the OutputWriter.Write calls of the current call
    rtPhase,      \* "idle" | "returned"
    innerCalls,   \* how often the current call invoked rp.Inner.RoundTrip
    cacheFresh    \* whether rp.Cache holds unexpired entries for the URLs

rtVars == <<rp, req, inner, out, exitPath, cachePuts, outputWrites, rtPhase,
            innerCalls, cacheFresh>>

VARIABLES
    caFiles,    \* per directory: the files ca-cert.pem and ca-key.pem
    leafCert,   \* per domain: the file <domain>-cert.pem of the certificate directory
    leafKey,    \* per domain: the file <domain>-key.pem
    mgr,        \* the running process's mitm.Manager (up = FALSE: no process)
    minted,     \* every leaf certificate generated so far, by serial
    roots,      \* the number of root certificates generated so far
    pc,         \* per caller: its position in GetCertForDomain
    dom,        \* per caller: the domain argument
    loc,        \* per caller: certPEM, keyPEM and cert
    ret,        \* per caller: the certificate returned
    mints,      \* per domain: generateDomainCert calls of the running Manager
    writers     \* per domain: the callers that created its cert file

caVars == <<caFiles, leafCert, leafKey, mgr, minted, roots, pc, dom, loc, ret,
            mints, writers>>

VARIABLES
    pxCfg,      \* proxy.Options: allow-list, MITM manager present, TLS listener
    pxPhase,    \* "idle" | "session" | "tunnel" | "done": the connection served
    pxOuter,    \* the request the server handler received
    pxStatus,   \* the status written to the ResponseWriter (0: none)
    sessPc,     \* position in the loop of handleConnectMITM
    stream,     \* the requests the client sends on the TLS stream, in order
    nread,      \* how many of them http.ReadRequest has returned
    pxResp,     \* the status of upstreamResp
    calls,      \* the transport.RoundTrip calls made, in order
    inFlight,   \* transport.RoundTrip calls that have not returned
    replies,    \* the responses written onto the TLS stream
    failed      \* the requests whose transport.RoundTrip returned an error

pxVars == <<pxCfg, pxPhase, pxOuter, pxStatus, sessPc, stream, nread, pxResp,
            calls, inFlight, replies, failed>>

VARIABLES
    now,        \* the wall clock, in ticks of 1/TicksPerSecond second
    bodyFile,   \* <dir>/<key>.html
    metaFile,   \* <dir>/<key>.meta
    put,        \* each caller of Put: its position and arguments
    nextId,     \* the number of the next body handed to Put
    get,        \* the caller of Get: its position, what it read, its result
    epoch       \* the last Put that ran alone and returned nil

dcVars == <<now, bodyFile, metaFile, put, nextId, get, epoch>>

VARIABLES
    hdr,        \* the response whose cache headers are examined
    verdict,    \* what IsCacheable and TTL returned for it
    ccPhase     \* "idle" | "done"

ccVars == <<hdr, verdict, ccPhase>>

VARIABLES
    poolSize,   \* cfg.Transport.Chromedp.PoolSize as configured
    sem,        \* the permits of p.sem that are free
    rpc,        \* each request: its position in the handler and Pool.RoundTrip
    rctx,       \* the requests whose req.Context() is done
    tabs,       \* the requests that have a browser tab open
    tabDone,    \* the requests whose tabCtx is done (timeout or pool closed)
    allocDone,  \* p.allocCtx is done: Pool.Close has run
    result,     \* what Pool.RoundTrip returned to each request
    srv,        \* "serving" | "closed": the http.Server
    sd,         \* position of the shutdown goroutine
    grace,      \* a grace period after the signal has elapsed
    late,       \* a request was accepted after Pool.Close
    aborted     \* the server closed the connection of a request in flight

bpVars == <<poolSize, sem, rpc, rctx, tabs, tabDone, allocDone, result, srv, sd,
            grace, late, aborted>>

VARIABLES
    rawURL0,    \* the argument of SafeFilename
    fileName,   \* what it returned
    sfPhase     \* "idle" | "done"

sfVars == <<rawURL0, fileName, sfPhase>>

VARIABLES
    outFile,    \* the file under its final name: <dir>/<SafeFilename(url)>
    wpc,        \* each caller of Writer.Write: "idle" | "open"
    wid,        \* the number of the Write each caller is executing
    nextWrite,  \* the number of the next Write
    seen        \* what the latest reader found under the final name

owVars == <<outFile, wpc, wid, nextWrite, seen>>

VARIABLES
    tmStore,    \* the template Store (or nil)
    tmRest,     \* the URL matched, without its scheme
    tmOut       \* the calls of Match made: the scheme used and the result

tmVars == <<tmStore, tmRest, tmOut>>

VARIABLES
    jtValue,    \* the value json.Unmarshal produced
    jtRuns,     \* the templates of the runs of GenerateTemplate made so far
    jtOrder     \* the order the maps yielded their keys in during the last run

jtVars == <<jtValue, jtRuns, jtOrder>>

VARIABLES
    cfg,        \* the Config of run(): as loaded, then with the flags applied
    flags,      \* the command-line flags
    startup     \* where run() is, and the components it has built so far

cfVars == <<cfg, flags, startup>>

VARIABLES
    expired     \* the leaves 1..expired of `minted` are past their NotAfter

ckVars == <<expired>>

VARIABLES
    hhCfg,      \* proxy.Options: allow-list, MITM manager present, TLS listener
    hhPhase,    \* "idle" | "session" | "done": the connection served
    hhOuter,    \* the request the server handler received
    hhStatus,   \* the status written to the ResponseWriter (0: none)
    handed,     \* the request given to transport.RoundTrip last
    nHanded     \* how many requests the connection has given to the transport

hhVars == <<hhCfg, hhPhase, hhOuter, hhStatus, handed, nHanded>>

VARIABLES
    newIn,      \* what browser.New meets: the URL parses, the host is literal,
                \* the lookup's outcome, the probe request can be built
    newPc,      \* "idle" | "resolve" | "loop" | "returned": position in New
    attempt,    \* the loop variable of New
    probes,     \* the GETs of /json/version made so far
    lastStatus, \* the status of the last probe (0: none, or the GET failed)
    allocCtx,   \* "none" | "live" | "cancelled": the remote allocator's context
    newRet      \* "none" | "pool" | "error": what New returned

bnVars == <<newIn, newPc, attempt, probes, lastStatus, allocCtx, newRet>>

VARIABLES
    tnPhase,    \* "idle" | "tunnel" | "done": the CONNECT request served
    tnTarget,   \* req.Host of the CONNECT request
    tnStatus,   \* the status written to the ResponseWriter (0: none)
    hijacked,   \* the client connection was taken from the server
    conns,      \* per side, the proxy's connection: "none" | "open" | "closed"
    peerClosed, \* per side, whether the remote end has closed
    gpc,        \* per copy goroutine: "none" | "copy" | "closeSrc" | "closeDst" | "exit"
    moved       \* per copy goroutine, the chunks it has written (capped)

tnVars == <<tnPhase, tnTarget, tnStatus, hijacked, conns, peerClosed, gpc, moved>>

vars == <<rtVars, caVars, pxVars, dcVars, ccVars, bpVars, sfVars, owVars, tmVars, jtVars, cfVars, ckVars, hhVars, bnVars, tnVars>>

\* What the steps of one component leave alone: the other components.
exceptRT == <<caVars, pxVars, dcVars, ccVars, bpVars, sfVars, owVars, tmVars, jtVars, cfVars, ckVars, hhVars, bnVars, tnVars>>

exceptCA == <<rtVars, pxVars, dcVars, ccVars, bpVars, sfVars, owVars, tmVars, jtVars, cfVars, ckVars, hhVars, bnVars, tnVars>>

exceptPX == <<rtVars, caVars, dcVars, ccVars, bpVars, sfVars, owVars, tmVars, jtVars, cfVars, ckVars, hhVars, bnVars, tnVars>>

exceptDC == <<rtVars, caVars, pxVars, ccVars, bpVars, sfVars, owVars, tmVars, jtVars, cfVars, ckVars, hhVars, bnVars, tnVars>>

exceptCC == <<rtVars, caVars, pxVars, dcVars, bpVars, sfVars, owVars, tmVars, jtVars, cfVars, ckVars, hhVars, bnVars, tnVars>>

exceptBP == <<rtVars, caVars, pxVars, dcVars, ccVars, sfVars, owVars, tmVars, jtVars, cfVars, ckVars, hhVars, bnVars, tnVars>>

exceptSF == <<rtVars, caVars, pxVars, dcVars, ccVars, bpVars, owVars, tmVars, jtVars, cfVars, ckVars, hhVars, bnVars, tnVars>>

exceptOW == <<rtVars, caVars, pxVars, dcVars, ccVars, bpVars, sfVars, tmVars, jtVars, cfVars, ckVars, hhVars, bnVars, tnVars>>

exceptTM == <<rtVars, caVars, pxVars, dcVars, ccVars, bpVars, sfVars, owVars, jtVars, cfVars, ckVars, hhVars, bnVars, tnVars>>

exceptJT == <<rtVars, caVars, pxVars, dcVars, ccVars, bpVars, sfVars, owVars, tmVars, cfVars, ckVars, hhVars, bnVars, tnVars>>

exceptCF == <<rtVars, caVars, pxVars, dcVars, ccVars, bpVars, sfVars, owVars, tmVars, jtVars, ckVars, hhVars, bnVars, tnVars>>

exceptCK == <<rtVars, caVars, pxVars, dcVars, ccVars, bpVars, sfVars, owVars, tmVars, jtVars, cfVars, hhVars, bnVars, tnVars>>

exceptHH == <<rtVars, caVars, pxVars, dcVars, ccVars, bpVars, sfVars, owVars, tmVars, jtVars, cfVars, ckVars, bnVars, tnVars>>

exceptBN == <<rtVars, caVars, pxVars, dcVars, ccVars, bpVars, sfVars, owVars, tmVars, jtVars, cfVars, ckVars, hhVars, tnVars>>

exceptTN == <<rtVars, caVars, pxVars, dcVars, ccVars, bpVars, sfVars, owVars, tmVars, jtVars, cfVars, ckVars, hhVars, bnVars>>

\* A header that is absent reads as the empty value (http.Header.Get).
NoValue == <<>>

NoResp == [status |-> 0, ctype |-> <<>>, cenc |-> "", clen |-> NoValue,
           ContentLength |-> 0, vary |-> "", xtc |-> NoValue, cc |-> <<>>,
           expires |-> [st |-> "absent", delta |-> 0], etag |-> FALSE,
           lastmod |-> FALSE, body |-> <<>>]

ContentTypes == {<<"TEXT/HTML", "charset=utf-8">>, <<"application/json">>,
                 <<"text/plain">>, <<"Application/JSON", "text/html">>}

Encodings == {"", "identity", "gzip", "Deflate", "br"}

\* The origin's other headers: a response with a known length and a max-age,
\* a chunked one that already carries Vary: accept and an X-Token-Count of its
\* own and forbids storing, and a 404 with a foreign Vary value.
HeaderProfiles ==
    {[known |-> TRUE, status |-> 200, vary |-> "", xtc |-> NoValue,
      cc |-> <<"max-age", "=", "6", "0">>, etag |-> FALSE],
     [known |-> FALSE, status |-> 200, vary |-> "accept", xtc |-> <<"x">>,
      cc |-> <<"No-Store">>, etag |-> TRUE],
     [known |-> TRUE, status |-> 404, vary |-> "Accept-Encoding", xtc |-> NoValue,
      cc |-> <<"max-age", "=", "6", "0">>, etag |-> FALSE]}

InnerResponse(ct, enc, body, h) ==
    [status |-> h.status, ctype |-> ct, cenc |-> enc,
     clen |-> IF h.known THEN Itoa(Len(body)) ELSE NoValue,
     ContentLength |-> IF h.known THEN Len(body) ELSE -1,
     vary |-> h.vary, xtc |-> h.xtc, cc |-> h.cc,
     expires |-> [st |-> "absent", delta |-> 0], etag |-> h.etag, lastmod |-> FALSE,
     body |-> body]

InnerResults ==
    {[err |-> TRUE, resp |-> NoResp]} \cup
    {[err |-> FALSE, resp |-> InnerResponse(ct, enc, b, h)] :
        ct \in ContentTypes, enc \in Encodings, b \in Bodies, h \in HeaderProfiles}

Accepts == {<<>>,
            <<[type |-> "text/html", params |-> ""]>>,
            <<[type |-> "text/html", params |-> ""],
              [type |-> "Text/Markdown", params |-> "q=0.9"]>>}

Configs == [MaxBodySize : 0..MaxLimit, ConvertHTML : BOOLEAN, ConvertJSON : BOOLEAN,
            NegotiateOnly : BOOLEAN, TokenCounter : BOOLEAN, Cache : BOOLEAN,
            OutputWriter : BOOLEAN]

\* ----------------------------------------------------- converter package
IsHTMLContentType(ct) == \E i \in 1..Len(ct) : ToLower(ct[i]) = "text/html"

IsJSONContentType(ct) == \E i \in 1..Len(ct) : ToLower(ct[i]) = "application/json"

Markdowns == SeqsUpTo({"m"}, MaxMd)

\* JSONToMarkdown: json.Unmarshal rejects an empty document; other documents
\* parse or not, and render or not, as their bytes and the template decide.
JSONToMarkdown(raw) ==
    {[err |-> TRUE, md |-> <<>>]} \cup
    (IF raw = <<>> THEN {} ELSE {[err |-> FALSE, md |-> m] : m \in Markdowns})

HTMLToMarkdown(raw) ==
    {[err |-> TRUE, md |-> <<>>]} \cup {[err |-> FALSE, md |-> m] : m \in Markdowns}

\* tokens.Counter.Count: the number of tokens of md, none for the empty text.
Count(md) == IF md = <<>> THEN {0} ELSE 1..Len(md)

\* --------------------------------------------------------- cache package
\* A header value is a sequence of tokens: names, "=", ",", " " and single
\* characters.  An Expires header is absent, unparsable, or a time `delta`
\* seconds after the clock.
LowerAll(s) == [i \in 1..Len(s) |-> ToLower(s[i])]

\* strings.Index, counted from 1; 0 when sub does not occur.
Index(s, sub) ==
    LET at == {i \in 1..Len(s) : /\ i + Len(sub) - 1 <= Len(s)
                                 /\ SubSeq(s, i, i + Len(sub) - 1) = sub}
    IN IF at = {} THEN 0 ELSE CHOOSE i \in at : \A j \in at : i <= j

Contains(s, sub) == Index(s, sub) > 0

\* strings.IndexAny, counted from 1; 0 when none of chars occurs.
IndexAny(s, chars) ==
    LET at == {i \in 1..Len(s) : s[i] \in chars}
    IN IF at = {} THEN 0 ELSE CHOOSE i \in at : \A j \in at : i <= j

RECURSIVE TrimSpace(_)
TrimSpace(s) ==
    IF s = <<>> THEN s
    ELSE IF s[1] = " " THEN TrimSpace(Drop(s, 1))
    ELSE IF s[Len(s)] = " " THEN TrimSpace(Take(s, Len(s) - 1))
    ELSE s

RECURSIVE DecimalValue(_)
DecimalValue(s) ==
    IF s = <<>> THEN 0
    ELSE 10 * DecimalValue(Take(s, Len(s) - 1))
         + (CHOOSE d \in 0..9 : Digit[d + 1] = s[Len(s)])

\* strconv.Atoi: an optional sign and decimal digits.
Atoi(s) ==
    LET signed == s # <<>> /\ s[1] \in {"+", "-"}
        digits == IF signed THEN Drop(s, 1) ELSE s
    IN IF ~IsDecimal(digits) THEN [err |-> TRUE, n |-> 0]
       ELSE [err |-> FALSE,
             n |-> IF signed /\ s[1] = "-" THEN 0 - DecimalValue(digits)
                   ELSE DecimalValue(digits)]

\* parseMaxAge, in seconds.
parseMaxAge(s) ==
    LET end == IndexAny(s, {",", " "})
        r == Atoi(TrimSpace(IF end = 0 THEN s ELSE Take(s, end - 1)))
    IN IF r.err \/ r.n <= 0 THEN 0 ELSE r.n

IsCacheable(resp) ==
    LET ccLower == LowerAll(resp.cc)
    IN IF resp.status < 200 \/ resp.status >= 400 THEN FALSE
       ELSE IF Contains(ccLower, <<"no-store">>) THEN FALSE
       ELSE IF Contains(ccLower, <<"private">>) THEN FALSE
       ELSE IF Contains(ccLower, <<"max-age">>) \/ Contains(ccLower, <<"s-maxage">>)
       THEN TRUE
       ELSE IF resp.expires.st = "valid" /\ resp.expires.delta > 0 THEN TRUE
       ELSE resp.etag \/ resp.lastmod

DefaultTTL == 300

\* TTL in seconds.
TTL(resp) ==
    LET ccLower == LowerAll(resp.cc)
        s == Index(ccLower, <<"s-maxage", "=">>)
        m == Index(ccLower, <<"max-age", "=">>)
    IN IF s > 0 /\ parseMaxAge(Drop(resp.cc, s + 1)) > 0
       THEN parseMaxAge(Drop(resp.cc, s + 1))
       ELSE IF m > 0 /\ parseMaxAge(Drop(resp.cc, m + 1)) > 0
       THEN parseMaxAge(Drop(resp.cc, m + 1))
       ELSE IF resp.expires.st = "valid" /\ resp.expires.delta > 0
       THEN resp.expires.delta
       ELSE DefaultTTL

\* ---------------------------------------------------- middleware package
\* wantsMarkdown: some comma-separated part of Accept, cut at ";" and trimmed,
\* equals text/markdown ignoring case.
wantsMarkdown(accept) ==
    \E i \in 1..Len(accept) : ToLower(accept[i].type) = "text/markdown"

shouldConvertHTML(p, rq, resp) ==
    IF p.NegotiateOnly
    THEN IsHTMLContentType(resp.ctype) /\ wantsMarkdown(rq.accept)
    ELSE IsHTMLContentType(resp.ctype) /\ p.ConvertHTML

shouldConvertJSON(p, rq, resp) ==
    IF p.NegotiateOnly
    THEN IsJSONContentType(resp.ctype) /\ wantsMarkdown(rq.accept)
    ELSE IsJSONContentType(resp.ctype) /\ p.ConvertJSON

\* What is left in resp.Body after a reader that failed had read from it: the
\* reader buffers, so it has taken at least the bytes it decoded (atLeast) and
\* at most everything.
Leftovers(body, atLeast) ==
    {Drop(body, k) : k \in Min(atLeast, Len(body))..Len(body)}

\* io.ReadAll over the reader, through io.LimitReader when MaxBodySize > 0.
\* A read that ignores MaxBodySize.
ReadAllUnbounded(p, body, kind) ==
    LET r == ReaderOutput(body, kind)
    IN IF ~r.err THEN {[err |-> FALSE, raw |-> r.out, rest |-> <<>>]}
       ELSE {[err |-> TRUE, raw |-> <<>>, rest |-> l] : l \in Leftovers(body, r.next - 1)}

\* A reader's error comes after its last byte; at exactly MaxBodySize bytes the
\* limit may or may not cut the read off before the error is seen.
ReadAll(p, body, kind) ==
    LET r == ReaderOutput(body, kind)
        n == p.MaxBodySize
        good == [err |-> FALSE, raw |-> IF n > 0 THEN Take(r.out, n) ELSE r.out,
                 rest |-> <<>>]
        bad == {[err |-> TRUE, raw |-> <<>>, rest |-> l] :
                   l \in Leftovers(body, r.next - 1)}
    IN IF ~r.err THEN {good}
       ELSE IF n > 0 /\ Len(r.out) > n THEN {good}
       ELSE IF n > 0 /\ Len(r.out) = n THEN {good} \cup bad
       ELSE bad

\* A fall-through that marks the response as negotiated, as a converted one is.
FallThroughAddsVary(resp, raw) ==
    [resp EXCEPT !.body = raw, !.ContentLength = Len(raw), !.vary = "accept"]

\* Lines 129-132 and 143-146: the converter failed.
FallThrough(resp, raw) ==
    [resp EXCEPT !.body = raw, !.ContentLength = Len(raw)]

\* Lines 152-157: not converting.
DecodedPassthrough(resp, raw) ==
    [resp EXCEPT !.body = raw, !.ContentLength = Len(raw), !.cenc = "",
                 !.clen = Itoa(Len(raw))]

\* A finalizeMarkdown without its last statement, line 184.
finalizeMarkdownKeepsVary(p, resp, md, count) ==
    [resp EXCEPT !.xtc = IF p.TokenCounter THEN Itoa(count) ELSE @,
                 !.body = md, !.ContentLength = Len(md),
                 !.ctype = <<"text/markdown", "charset=utf-8">>,
                 !.cenc = "", !.clen = Itoa(Len(md))]

\* Lines 162-187.
finalizeMarkdown(p, resp, md, count) ==
    [resp EXCEPT !.xtc = IF p.TokenCounter THEN Itoa(count) ELSE @,
                 !.body = md, !.ContentLength = Len(md),
                 !.ctype = <<"text/markdown", "charset=utf-8">>,
                 !.cenc = "", !.clen = Itoa(Len(md)), !.vary = "accept"]

Returned(resp, path, puts, writes) ==
    [err |-> FALSE, resp |-> resp, path |-> path, puts |-> puts, writes |-> writes]

\* A cache write that disregards the origin's cache directives.
CachePutsAlways(p, rq, resp, raw) ==
    IF IsHTMLContentType(resp.ctype) /\ p.Cache
    THEN <<[url |-> rq.url, body |-> raw, ttl |-> TTL(resp)]>>
    ELSE <<>>

\* Lines 110-116.
CachePuts(p, rq, resp, raw) ==
    IF IsHTMLContentType(resp.ctype) /\ p.Cache /\ IsCacheable(resp)
    THEN <<[url |-> rq.url, body |-> raw, ttl |-> TTL(resp)]>>
    ELSE <<>>

\* Lines 118-157: the body has been read.
Route(p, rq, resp, raw) ==
    LET puts == CachePuts(p, rq, resp, raw)
        done(conv) ==
            IF conv.err
            THEN {Returned(FallThrough(resp, raw), "convertFailed", puts, <<>>)}
            ELSE {Returned(finalizeMarkdown(p, resp, conv.md, c), "converted", puts,
                           IF p.OutputWriter THEN <<conv.md>> ELSE <<>>) :
                     c \in Count(conv.md)}
    IN IF shouldConvertJSON(p, rq, resp)
       THEN UNION {done(conv) : conv \in JSONToMarkdown(raw)}
       ELSE IF shouldConvertHTML(p, rq, resp)
       THEN UNION {done(conv) : conv \in HTMLToMarkdown(raw)}
       ELSE {Returned(DecodedPassthrough(resp, raw), "decoded", puts, <<>>)}

\* Lines 85-103: decode and read; a failure returns resp as it then is.
DecodeAndRoute(p, rq, resp) ==
    LET d == Decompress(resp.body, resp.cenc)
    IN IF d.err
       THEN {Returned([resp EXCEPT !.body = l], "decodeFailed", <<>>, <<>>) :
                l \in IF d.kind = "gzip" THEN Leftovers(resp.body, 1) ELSE {resp.body}}
       ELSE UNION {IF r.err
                   THEN {Returned([resp EXCEPT !.body = r.rest], "readFailed", <<>>, <<>>)}
                   ELSE Route(p, rq, resp, r.raw) :
                      r \in ReadAll(p, resp.body, d.kind)}

\* Every result RoundTrip can return for one result of the inner transport.
RoundTripResults(p, rq, in) ==
    IF in.err
    THEN {[err |-> TRUE, resp |-> in.resp, path |-> "innerError",
           puts |-> <<>>, writes |-> <<>>]}
    ELSE IF ~IsHTMLContentType(in.resp.ctype) /\ ~IsJSONContentType(in.resp.ctype)
    THEN {Returned(in.resp, "unchanged", <<>>, <<>>)}
    ELSE IF ~IsHTMLContentType(in.resp.ctype) /\ ~shouldConvertJSON(p, rq, in.resp)
    THEN {Returned(in.resp, "unchanged", <<>>, <<>>)}
    ELSE DecodeAndRoute(p, rq, in.resp)

\* A transport that answers from the cache while it holds a fresh entry.
InnerCallsUnlessCached(p, fresh) == IF p.Cache /\ fresh THEN 0 ELSE 1

\* Line 58: rp.Inner.RoundTrip(req), the first statement on every path.
InnerCalls(p, fresh) == 1

URLs == {"http://h/a", "http://h/b"}

Requests == {[accept |-> a, url |-> u] : a \in Accepts, u \in URLs}

RTInit ==
    /\ rp \in Configs
    /\ req = [accept |-> <<>>, url |-> ""]
    /\ inner = [err |-> FALSE, resp |-> NoResp]
    /\ out = [err |-> FALSE, resp |-> NoResp]
    /\ exitPath = "none"
    /\ cachePuts = <<>>
    /\ outputWrites = <<>>
    /\ rtPhase = "idle"
    /\ innerCalls = 0
    /\ cacheFresh = FALSE

RoundTrip ==
    /\ rtPhase = "idle"
    /\ \E rq \in Requests, in \in InnerResults :
         \E r \in RoundTripResults(rp, rq, in) :
            /\ req' = rq
            /\ inner' = in
            /\ out' = [err |-> r.err, resp |-> r.resp]
            /\ exitPath' = r.path
            /\ cachePuts' = r.puts
            /\ outputWrites' = r.writes
    /\ innerCalls' = innerCalls + InnerCalls(rp, cacheFresh)
    /\ rtPhase' = "returned"
    /\ UNCHANGED <<rp, cacheFresh, exceptRT>>

\* The caller has consumed the response; the processor serves the next call.
NextCall ==
    /\ rtPhase = "returned"
    /\ req' = [accept |-> <<>>, url |-> ""]
    /\ inner' = [err |-> FALSE, resp |-> NoResp]
    /\ out' = [err |-> FALSE, resp |-> NoResp]
    /\ exitPath' = "none"
    /\ cachePuts' = <<>>
    /\ outputWrites' = <<>>
    /\ innerCalls' = 0
    /\ rtPhase' = "idle"
    /\ UNCHANGED <<rp, cacheFresh, exceptRT>>

\* A processor built over a cache directory that may already hold entries
\* written before the start (the DiskCache outlives the process).
RCInit ==
    /\ rp \in {c \in Configs : c.Cache /\ ~c.TokenCounter}
    /\ req = [accept |-> <<>>, url |-> ""]
    /\ inner = [err |-> FALSE, resp |-> NoResp]
    /\ out = [err |-> FALSE, resp |-> NoResp]
    /\ exitPath = "none"
    /\ cachePuts = <<>>
    /\ outputWrites = <<>>
    /\ rtPhase = "idle"
    /\ innerCalls = 0
    /\ cacheFresh \in BOOLEAN

\* ------------------------------------------------ certificate manager state
MaxCerts == 3
MaxRoots == 2
\* The goroutines serving CONNECT requests.
Callers == {"c1", "c2"}

\* Domains as character strings: a host, and the same host with a port.
Domains == {<<"h">>, <<"h", ":", "4">>}

\* The directory "" is the working directory (filepath.Join("", name) = name).
Dirs == {"", "certs"}

Absent == [st |-> "absent", id |-> 0]

Empty == [st |-> "empty", id |-> 0]

Pem(id) == [st |-> "pem", id |-> id]

\* net.SplitHostPort: the host before the last colon, an error without one.
SplitHostPort(d) ==
    IF \E i \in 1..Len(d) : d[i] = ":"
    THEN LET i == CHOOSE k \in 1..Len(d) :
                     d[k] = ":" /\ \A j \in (k + 1)..Len(d) : d[j] # ":"
         IN [err |-> FALSE, host |-> SubSeq(d, 1, i - 1)]
    ELSE [err |-> TRUE, host |-> <<>>]

\* generateDomainCert: the leaf for domain, signed by the Manager's root.
generateDomainCert(m, domain) ==
    LET sp == SplitHostPort(domain)
        host == IF sp.err THEN domain ELSE sp.host
    IN [cn |-> host,
        san |-> {host} \cup (IF host # <<>> /\ host[1] # "*"
                             THEN {<<"*", ".">> \o host} ELSE {}),
        issuer |-> m.caX509]

\* tls.X509KeyPair on two files read from disk: the pair parses when both hold
\* PEM data and the key belongs to the certificate.
X509KeyPair(certPEM, keyPEM) ==
    certPEM.st = "pem" /\ keyPEM.st = "pem" /\ certPEM.id = keyPEM.id

Down == [up |-> FALSE, cacheDir |-> "", caX509 |-> 0,
         cache |-> [d \in Domains |-> 0]]

NoLocals == [certPEM |-> Absent, keyPEM |-> Absent, cert |-> 0]

\* mitm.New(cacheDir) on the files found: load the root when ca-cert.pem is
\* there, else generate one (fresh) and save it when a directory is given.
New(cacheDir, files, fresh) ==
    IF files[cacheDir].cert.st # "absent"
    THEN \* loadCA
         IF X509KeyPair(files[cacheDir].cert, files[cacheDir].key)
         THEN [err |-> FALSE, files |-> files, generated |-> FALSE,
               m |-> [Down EXCEPT !.up = TRUE, !.cacheDir = cacheDir,
                                  !.caX509 = files[cacheDir].cert.id]]
         ELSE [err |-> TRUE, files |-> files, generated |-> FALSE, m |-> Down]
    ELSE \* generateCA, saveCA
         [err |-> FALSE, generated |-> TRUE,
          files |-> IF cacheDir # ""
                    THEN [files EXCEPT ![cacheDir] = [cert |-> Pem(fresh), key |-> Pem(fresh)]]
                    ELSE files,
          m |-> [Down EXCEPT !.up = TRUE, !.cacheDir = cacheDir, !.caX509 = fresh]]

\* certs.GenerateCA(host, dir): a new root written over ca-cert.pem and ca-key.pem.
GenerateCA(dir, files, fresh) ==
    [files EXCEPT ![dir] = [cert |-> Pem(fresh), key |-> Pem(fresh)]]

CAInit ==
    /\ caFiles = [d \in Dirs |-> [cert |-> Absent, key |-> Absent]]
    /\ leafCert = [d \in Domains |-> Absent]
    /\ leafKey = [d \in Domains |-> Absent]
    /\ mgr = Down
    /\ minted = <<>>
    /\ roots = 0
    /\ pc = [c \in Callers |-> "idle"]
    /\ dom = [c \in Callers |-> <<"h">>]
    /\ loc = [c \in Callers |-> NoLocals]
    /\ ret = [c \in Callers |-> 0]
    /\ mints = [d \in Domains |-> 0]
    /\ writers = [d \in Domains |-> {}]

\* The proxy is started in a working directory that already holds
\* ca-cert.pem and ca-key.pem, the root of an earlier run whose certificate
\* directory was "." (filepath.Join(".", name) = name, as for "").
WDInit ==
    /\ caFiles = [d \in Dirs |-> IF d = "" THEN [cert |-> Pem(1), key |-> Pem(1)]
                                  ELSE [cert |-> Absent, key |-> Absent]]
    /\ leafCert = [d \in Domains |-> Absent]
    /\ leafKey = [d \in Domains |-> Absent]
    /\ mgr = Down
    /\ minted = <<>>
    /\ roots = 1
    /\ pc = [c \in Callers |-> "idle"]
    /\ dom = [c \in Callers |-> <<"h">>]
    /\ loc = [c \in Callers |-> NoLocals]
    /\ ret = [c \in Callers |-> 0]
    /\ mints = [d \in Domains |-> 0]
    /\ writers = [d \in Domains |-> {}]

CallerReset ==
    /\ pc' = [c \in Callers |-> "idle"]
    /\ loc' = [c \in Callers |-> NoLocals]
    /\ ret' = [c \in Callers |-> 0]
    /\ mints' = [d \in Domains |-> 0]
    /\ writers' = [d \in Domains |-> {}]

\* cmd/root.go run, TLS enabled with auto_cert and no certificate files: the
\* unified CA is generated in the auto-cert directory, then mitm.New loads it.
StartUnified ==
    /\ ~mgr.up
    /\ roots < MaxRoots
    /\ LET files == GenerateCA("certs", caFiles, roots + 1)
           n == New("certs", files, roots + 1)
       IN /\ ~n.err
          /\ caFiles' = n.files
          /\ mgr' = n.m
    /\ roots' = roots + 1
    /\ CallerReset
    /\ UNCHANGED <<exceptCA, leafCert, leafKey, minted, dom>>

\* cmd/root.go run, MITM enabled otherwise: mitm.New on the configured
\* certificate directory (possibly none).
StartSeparate ==
    /\ ~mgr.up
    /\ \E dir \in Dirs :
         LET n == New(dir, caFiles, roots + 1)
         IN /\ ~n.err
            /\ n.generated => roots < MaxRoots
            /\ caFiles' = n.files
            /\ mgr' = n.m
            /\ roots' = IF n.generated THEN roots + 1 ELSE roots
    /\ CallerReset
    /\ UNCHANGED <<exceptCA, leafCert, leafKey, minted, dom>>

\* The process ends (signal, crash); its memory is gone, its files stay.
Exit ==
    /\ mgr.up
    /\ mgr' = Down
    /\ CallerReset
    /\ UNCHANGED <<exceptCA, caFiles, leafCert, leafKey, minted, roots, dom>>

\* --------------------------------------------------- GetCertForDomain steps
Goto(c, l) == pc' = [pc EXCEPT ![c] = l]

\* handleConnectMITM calls GetCertForDomain(req.Host).
Call(c) ==
    /\ mgr.up
    /\ pc[c] = "idle"
    /\ \E d \in Domains : dom' = [dom EXCEPT ![c] = d]
    /\ Goto(c, "checkCache")
    /\ UNCHANGED <<exceptCA, caFiles, leafCert, leafKey, mgr, minted, roots, loc, ret, mints, writers>>

\* Lines 154-159: the read-locked lookup.
CheckCache(c) ==
    /\ pc[c] = "checkCache"
    /\ IF mgr.cache[dom[c]] # 0
       THEN /\ ret' = [ret EXCEPT ![c] = mgr.cache[dom[c]]]
            /\ Goto(c, "done")
       ELSE /\ Goto(c, IF mgr.cacheDir # "" THEN "stat" ELSE "generate")
            /\ UNCHANGED ret
    /\ UNCHANGED <<exceptCA, caFiles, leafCert, leafKey, mgr, minted, roots, dom, loc, mints, writers>>

\* Line 166: os.Stat(certPath).
Stat(c) ==
    /\ pc[c] = "stat"
    /\ Goto(c, IF leafCert[dom[c]].st # "absent" THEN "readCert" ELSE "generate")
    /\ UNCHANGED <<exceptCA, caFiles, leafCert, leafKey, mgr, minted, roots, dom, loc, ret, mints, writers>>

\* Line 167.
ReadCert(c) ==
    /\ pc[c] = "readCert"
    /\ loc' = [loc EXCEPT ![c].certPEM = leafCert[dom[c]]]
    /\ Goto(c, "readKey")
    /\ UNCHANGED <<exceptCA, caFiles, leafCert, leafKey, mgr, minted, roots, dom, ret, mints, writers>>

\* Lines 168-171: read the key and pair it with the certificate.
ReadKey(c) ==
    /\ pc[c] = "readKey"
    /\ LET keyPEM == leafKey[dom[c]]
       IN IF X509KeyPair(loc[c].certPEM, keyPEM)
          THEN /\ loc' = [loc EXCEPT ![c].keyPEM = keyPEM, ![c].cert = loc[c].certPEM.id]
               /\ Goto(c, "storeLoaded")
          ELSE /\ loc' = [loc EXCEPT ![c].keyPEM = keyPEM]
               /\ Goto(c, "generate")
    /\ UNCHANGED <<exceptCA, caFiles, leafCert, leafKey, mgr, minted, roots, dom, ret, mints, writers>>

\* Lines 172-175.
StoreLoaded(c) ==
    /\ pc[c] = "storeLoaded"
    /\ mgr' = [mgr EXCEPT !.cache[dom[c]] = loc[c].cert]
    /\ ret' = [ret EXCEPT ![c] = loc[c].cert]
    /\ Goto(c, "done")
    /\ UNCHANGED <<exceptCA, caFiles, leafCert, leafKey, minted, roots, dom, loc, mints, writers>>

\* Line 181.
Generate(c) ==
    /\ pc[c] = "generate"
    /\ Len(minted) < MaxCerts
    /\ minted' = Append(minted, generateDomainCert(mgr, dom[c]))
    /\ loc' = [loc EXCEPT ![c].cert = Len(minted) + 1]
    /\ mints' = [mints EXCEPT ![dom[c]] = @ + 1]
    /\ Goto(c, "store")
    /\ UNCHANGED <<exceptCA, caFiles, leafCert, leafKey, mgr, roots, dom, ret, writers>>

\* Lines 186-188.
Store(c) ==
    /\ pc[c] = "store"
    /\ mgr' = [mgr EXCEPT !.cache[dom[c]] = loc[c].cert]
    /\ IF mgr.cacheDir # ""
       THEN Goto(c, "createCert") /\ UNCHANGED ret
       ELSE Goto(c, "done") /\ ret' = [ret EXCEPT ![c] = loc[c].cert]
    /\ UNCHANGED <<exceptCA, caFiles, leafCert, leafKey, minted, roots, dom, loc, mints, writers>>

\* saveDomainCert, line 295: os.Create truncates the certificate file.
CreateCert(c) ==
    /\ pc[c] = "createCert"
    /\ leafCert' = [leafCert EXCEPT ![dom[c]] = Empty]
    /\ writers' = [writers EXCEPT ![dom[c]] = @ \cup {c}]
    /\ Goto(c, "writeCert")
    /\ UNCHANGED <<exceptCA, caFiles, leafKey, mgr, minted, roots, dom, loc, ret, mints>>

\* Lines 301-306.
WriteCert(c) ==
    /\ pc[c] = "writeCert"
    /\ leafCert' = [leafCert EXCEPT ![dom[c]] = Pem(loc[c].cert)]
    /\ Goto(c, "createKey")
    /\ UNCHANGED <<exceptCA, caFiles, leafKey, mgr, minted, roots, dom, loc, ret, mints, writers>>

\* Line 309.
CreateKey(c) ==
    /\ pc[c] = "createKey"
    /\ leafKey' = [leafKey EXCEPT ![dom[c]] = Empty]
    /\ Goto(c, "writeKey")
    /\ UNCHANGED <<exceptCA, caFiles, leafCert, mgr, minted, roots, dom, loc, ret, mints, writers>>

\* Lines 315-325, then line 197.
WriteKey(c) ==
    /\ pc[c] = "writeKey"
    /\ leafKey' = [leafKey EXCEPT ![dom[c]] = Pem(loc[c].cert)]
    /\ ret' = [ret EXCEPT ![c] = loc[c].cert]
    /\ Goto(c, "done")
    /\ UNCHANGED <<exceptCA, caFiles, leafCert, mgr, minted, roots, dom, loc, mints, writers>>

\* The caller has used the certificate and is free for the next CONNECT.
Finish(c) ==
    /\ pc[c] = "done"
    /\ Goto(c, "idle")
    /\ loc' = [loc EXCEPT ![c] = NoLocals]
    /\ ret' = [ret EXCEPT ![c] = 0]
    /\ UNCHANGED <<exceptCA, caFiles, leafCert, leafKey, mgr, minted, roots, dom, mints, writers>>

GetCertForDomain(c) ==
    \/ CheckCache(c) \/ Stat(c) \/ ReadCert(c) \/ ReadKey(c) \/ StoreLoaded(c)
    \/ Generate(c) \/ Store(c) \/ CreateCert(c) \/ WriteCert(c) \/ CreateKey(c)
    \/ WriteKey(c)

CANext ==
    \/ StartUnified \/ StartSeparate \/ Exit
    \/ \E c \in Callers : Call(c) \/ GetCertForDomain(c) \/ Finish(c)

\* ------------------------------------------------------ the proxy server
MaxStream == 2

Hosts == {"h", "g"}

Paths == {"/a", "/b"}

\* The requests a client sends to the listener: absolute-URI requests,
\* origin-form requests, and CONNECT host:port.
ProxyRequests ==
    {[method |-> "GET", scheme |-> "http", host |-> h, port |-> "", path |-> p] :
        h \in Hosts, p \in Paths}
    \cup {[method |-> "GET", scheme |-> "", host |-> h, port |-> "", path |-> p] :
        h \in Hosts, p \in Paths}
    \cup {[method |-> "CONNECT", scheme |-> "", host |-> h, port |-> ":443", path |-> ""] :
        h \in Hosts}

NoRequest == [method |-> "", scheme |-> "", host |-> "", port |-> "", path |-> ""]

\* Strings are sequences of tokens; an empty token is no text.
Compact(s) == SelectSeq(s, LAMBDA t : t # "")

IsAbs(r) == r.scheme # ""

\* r.URL.String(): for CONNECT the URL holds the authority alone.
URLString(r) ==
    IF r.method = "CONNECT" THEN Compact(<<"//", r.host, r.port>>)
    ELSE IF IsAbs(r) THEN Compact(<<r.scheme, "://", r.host, r.port, r.path>>)
    ELSE <<r.path>>

\* r.Host
HostHeader(r) == Compact(<<r.host, r.port>>)

\* A pattern is a literal, anchored at the start (^lit) or not.
MatchString(pat, url) ==
    IF pat.anchored
    THEN Len(pat.lit) <= Len(url) /\ SubSeq(url, 1, Len(pat.lit)) = pat.lit
    ELSE \E i \in 1..Len(url) :
            /\ i + Len(pat.lit) - 1 <= Len(url)
            /\ SubSeq(url, i, i + Len(pat.lit) - 1) = pat.lit

\* Filter.Allowed
Allowed(patterns, rawURL) ==
    IF Len(patterns) = 0 THEN TRUE
    ELSE \E i \in 1..Len(patterns) : MatchString(patterns[i], rawURL)

\* Filter.Middleware: the URL it hands to Allowed.
rawURL(r, tls) ==
    IF IsAbs(r) THEN URLString(r)
    ELSE <<IF tls THEN "https" ELSE "http", "://">> \o HostHeader(r) \o URLString(r)

\* handleConnectMITM lines 238-240: the URL of an inner request.
UpstreamURL(outer, path) == Compact(<<"https", "://", outer.host, outer.port, path>>)

\* The allow-lists: none, ^http://, ^https://h, and the two together.
AllowLists ==
    {<<>>,
     <<[anchored |-> TRUE, lit |-> <<"http", "://">>]>>,
     <<[anchored |-> TRUE, lit |-> <<"https", "://", "h">>]>>,
     <<[anchored |-> FALSE, lit |-> <<"g">>],
       [anchored |-> TRUE, lit |-> <<"https", "://", "h">>]>>}

TransportResults ==
    {[err |-> TRUE, status |-> 0]} \cup {[err |-> FALSE, status |-> st] : st \in {200, 404}}

PXReset ==
    /\ pxPhase = "idle"
    /\ pxOuter = NoRequest
    /\ pxStatus = 0
    /\ sessPc = "none"
    /\ stream = <<>>
    /\ nread = 0
    /\ pxResp = 0
    /\ calls = <<>>
    /\ inFlight = 0
    /\ replies = <<>>
    /\ failed = {}

PXInit ==
    /\ pxCfg \in [allow : AllowLists, mitm : BOOLEAN, tls : BOOLEAN]
    /\ PXReset

PXIdle ==
    /\ pxCfg = [allow |-> <<>>, mitm |-> FALSE, tls |-> FALSE]
    /\ PXReset

\* A request that is not CONNECT: Filter.Middleware, then handleHTTP.
handleHTTP ==
    /\ pxPhase = "idle"
    /\ \E r \in ProxyRequests :
         /\ r.method # "CONNECT"
         /\ pxOuter' = r
         /\ IF ~Allowed(pxCfg.allow, rawURL(r, pxCfg.tls))
            THEN pxStatus' = 403 /\ UNCHANGED <<calls, failed>>
            ELSE IF ~IsAbs(r)
            THEN pxStatus' = 400 /\ UNCHANGED <<calls, failed>>
            ELSE \E res \in TransportResults :
                    /\ calls' = <<[idx |-> 1, url |-> URLString(r)]>>
                    /\ IF res.err
                       THEN pxStatus' = 502 /\ failed' = {1}
                       ELSE pxStatus' = res.status /\ UNCHANGED failed
    /\ pxPhase' = "done"
    /\ UNCHANGED <<exceptPX, pxCfg, sessPc, stream, nread, pxResp, inFlight, replies>>

\* CONNECT without a MITM manager: Filter.Middleware, then handleConnect.
handleConnect ==
    /\ pxPhase = "idle"
    /\ ~pxCfg.mitm
    /\ \E r \in ProxyRequests, dialed \in BOOLEAN :
         /\ r.method = "CONNECT"
         /\ pxOuter' = r
         /\ IF ~Allowed(pxCfg.allow, rawURL(r, pxCfg.tls))
            THEN pxStatus' = 403 /\ pxPhase' = "done"
            ELSE IF ~dialed
            THEN pxStatus' = 503 /\ pxPhase' = "done"
            ELSE pxStatus' = 200 /\ pxPhase' = "tunnel"
    /\ UNCHANGED <<exceptPX, pxCfg, sessPc, stream, nread, pxResp, calls, inFlight,
                   replies, failed>>

\* The tunnel ends when either side closes.
transfer ==
    /\ pxPhase = "tunnel"
    /\ pxPhase' = "done"
    /\ UNCHANGED <<exceptPX, pxCfg, pxOuter, pxStatus, sessPc, stream, nread, pxResp,
                   calls, inFlight, replies, failed>>

\* CONNECT with a MITM manager: Filter.Middleware, then handleConnectMITM up
\* to its loop (lines 193-227).
handleConnectMITM ==
    /\ pxPhase = "idle"
    /\ pxCfg.mitm
    /\ \E r \in ProxyRequests, certOK \in BOOLEAN, sent \in SeqsUpTo(Paths, MaxStream) :
         /\ r.method = "CONNECT"
         /\ pxOuter' = r
         /\ IF ~Allowed(pxCfg.allow, rawURL(r, pxCfg.tls))
            THEN /\ pxStatus' = 403 /\ pxPhase' = "done"
                 /\ UNCHANGED <<sessPc, stream>>
            ELSE IF ~certOK
            THEN /\ pxStatus' = 500 /\ pxPhase' = "done"
                 /\ UNCHANGED <<sessPc, stream>>
            ELSE /\ pxStatus' = 200 /\ pxPhase' = "session"
                 /\ sessPc' = "read"
                 /\ stream' = sent
    /\ UNCHANGED <<exceptPX, pxCfg, nread, pxResp, calls, inFlight, replies, failed>>

\* Lines 229-235: http.ReadRequest returns the next request, or fails (EOF,
\* a closed or broken connection) and the loop ends.
MitmRead ==
    /\ pxPhase = "session" /\ sessPc = "read"
    /\ \/ /\ nread < Len(stream)
          /\ nread' = nread + 1
          /\ sessPc' = "send"
          /\ UNCHANGED pxPhase
       \/ /\ pxPhase' = "done"
          /\ UNCHANGED <<nread, sessPc>>
    /\ UNCHANGED <<exceptPX, pxCfg, pxOuter, pxStatus, stream, pxResp, calls, inFlight,
                   replies, failed>>

\* Lines 238-246: the request is rewritten and handed to the transport.
MitmSend ==
    /\ pxPhase = "session" /\ sessPc = "send"
    /\ calls' = Append(calls, [idx |-> nread, url |-> UpstreamURL(pxOuter, stream[nread])])
    /\ inFlight' = inFlight + 1
    /\ sessPc' = "await"
    /\ UNCHANGED <<exceptPX, pxCfg, pxPhase, pxOuter, pxStatus, stream, nread, pxResp,
                   replies, failed>>

\* Lines 246-250: transport.RoundTrip returns; an error ends the loop.
MitmReturn ==
    /\ pxPhase = "session" /\ sessPc = "await"
    /\ inFlight' = inFlight - 1
    /\ \E res \in TransportResults :
         IF res.err
         THEN /\ failed' = failed \cup {nread}
              /\ pxPhase' = "done"
              /\ UNCHANGED <<sessPc, pxResp>>
         ELSE /\ pxResp' = res.status
              /\ sessPc' = "write"
              /\ UNCHANGED <<failed, pxPhase>>
    /\ UNCHANGED <<exceptPX, pxCfg, pxOuter, pxStatus, stream, nread, calls, replies>>

\* Lines 253-254: upstreamResp.Write(tlsConn); its error (the body or the
\* connection failed part-way) is dropped and the loop goes on.
MitmWrite ==
    /\ pxPhase = "session" /\ sessPc = "write"
    /\ \E complete \in BOOLEAN :
         replies' = Append(replies, [idx |-> nread, status |-> pxResp,
                                     complete |-> complete])
    /\ sessPc' = "read"
    /\ UNCHANGED <<exceptPX, pxCfg, pxPhase, pxOuter, pxStatus, stream, nread, pxResp,
                   calls, inFlight, failed>>

\* The connection is over; the server takes the next one.
NextConn ==
    /\ pxPhase = "done"
    /\ pxPhase' = "idle"
    /\ pxOuter' = NoRequest
    /\ pxStatus' = 0
    /\ sessPc' = "none"
    /\ stream' = <<>>
    /\ nread' = 0
    /\ pxResp' = 0
    /\ calls' = <<>>
    /\ inFlight' = 0
    /\ replies' = <<>>
    /\ failed' = {}
    /\ UNCHANGED <<exceptPX, pxCfg>>

PXNext ==
    \/ handleHTTP \/ handleConnect \/ transfer \/ handleConnectMITM
    \/ MitmRead \/ MitmSend \/ MitmReturn \/ MitmWrite \/ NextConn

\* ------------------------------------------------------- the disk cache
TicksPerSecond == 2

MaxClock == 3

MaxTTL == 2

MaxPuts == 2

Putters == {"p1", "p2"}

Durations == 0..MaxTTL

\* A file: absent, opened and truncated but not completely written
\* ("partial"), or completely written ("full"), by the Put numbered `by`.
\* A metadata file carries the expiry it was written with.
NoFile == [st |-> "absent", by |-> 0, expiry |-> 0]

PutIdle == [pc |-> "idle", id |-> 0, d |-> 0, at |-> 0, clean |-> FALSE]

GetIdle == [pc |-> "idle", meta |-> NoFile, body |-> NoFile, at |-> 0,
            clean |-> FALSE, hit |-> FALSE]

NoEpoch == [id |-> 0, at |-> 0, d |-> 0]

\* Format(time.RFC3339) then time.Parse(time.RFC3339): whole seconds.
RFC3339(t) == t - (t % TicksPerSecond)

DCInit ==
    /\ now = 0
    /\ bodyFile = NoFile
    /\ metaFile = NoFile
    /\ put = [p \in Putters |-> PutIdle]
    /\ nextId = 1
    /\ get = GetIdle
    /\ epoch = NoEpoch

Tick ==
    /\ now < MaxClock
    /\ now' = now + 1
    /\ UNCHANGED <<exceptDC, bodyFile, metaFile, put, nextId, get, epoch>>

\* Put line 168, first half: os.WriteFile opens the body file with O_TRUNC.
\* If the open fails Put returns the error and nothing has changed.
PutOpenBody(p) ==
    /\ put[p].pc = "idle"
    /\ nextId <= MaxPuts
    /\ \E d \in Durations, ok \in BOOLEAN :
         IF ok
         THEN /\ bodyFile' = [st |-> "partial", by |-> nextId, expiry |-> 0]
              /\ put' = [q \in Putters |->
                           IF q = p
                           THEN [pc |-> "body", id |-> nextId, d |-> d, at |-> 0,
                                 clean |-> /\ \A r \in Putters : put[r].pc = "idle"
                                           /\ get.pc = "idle"]
                           ELSE [put[q] EXCEPT !.clean = FALSE]]
              /\ nextId' = nextId + 1
              /\ get' = [get EXCEPT !.clean = FALSE]
              /\ epoch' = NoEpoch
         ELSE UNCHANGED <<bodyFile, put, nextId, get, epoch>>
    /\ UNCHANGED <<exceptDC, now, metaFile>>

\* Put line 168, second half: the body is written; a failed write leaves
\* the truncated file and Put returns the error.
PutWriteBody(p) ==
    /\ put[p].pc = "body"
    /\ \E ok \in BOOLEAN :
         IF ok
         THEN /\ bodyFile' = [st |-> "full", by |-> put[p].id, expiry |-> 0]
              /\ put' = [put EXCEPT ![p].pc = "meta"]
         ELSE /\ put' = [put EXCEPT ![p] = PutIdle]
              /\ UNCHANGED bodyFile
    /\ UNCHANGED <<exceptDC, now, metaFile, nextId, get, epoch>>

\* Put lines 171-172, first half: the expiry is computed and formatted and
\* the metadata file is opened with O_TRUNC; if the open fails Put returns
\* the error with the body already in place.
PutOpenMeta(p) ==
    /\ put[p].pc = "meta"
    /\ \E ok \in BOOLEAN :
         IF ok
         THEN /\ metaFile' = [st |-> "partial", by |-> put[p].id,
                              expiry |-> RFC3339(now + put[p].d)]
              /\ put' = [put EXCEPT ![p].pc = "stamp", ![p].at = now]
         ELSE /\ put' = [put EXCEPT ![p] = PutIdle]
              /\ UNCHANGED metaFile
    /\ UNCHANGED <<exceptDC, now, bodyFile, nextId, get, epoch>>

\* Put lines 172-175: the expiry is written and Put returns nil, or the
\* write fails and Put returns the error.
PutWriteMeta(p) ==
    /\ put[p].pc = "stamp"
    /\ \E ok \in BOOLEAN :
         IF ok
         THEN /\ metaFile' = [metaFile EXCEPT !.st = "full", !.by = put[p].id,
                                !.expiry = RFC3339(put[p].at + put[p].d)]
              /\ epoch' = IF put[p].clean
                          THEN [id |-> put[p].id, at |-> put[p].at, d |-> put[p].d]
                          ELSE epoch
         ELSE UNCHANGED <<metaFile, epoch>>
    /\ put' = [put EXCEPT ![p] = PutIdle]
    /\ UNCHANGED <<exceptDC, now, bodyFile, nextId, get>>

\* Get lines 140-151: the metadata file is read and the expiry parsed and
\* compared with the clock.
GetReadMeta ==
    /\ get.pc = "idle"
    /\ get' = [pc |-> IF metaFile.st = "absent" THEN "done"
                      ELSE IF metaFile.st = "partial" \/ now > metaFile.expiry
                      THEN "rmMeta"
                      ELSE "readBody",
               meta |-> metaFile, body |-> NoFile, at |-> now,
               clean |-> \A p \in Putters : put[p].pc = "idle",
               hit |-> FALSE]
    /\ put' = [p \in Putters |-> [put[p] EXCEPT !.clean = FALSE]]
    /\ UNCHANGED <<exceptDC, now, bodyFile, metaFile, nextId, epoch>>

\* Get line 147
GetRemoveMeta ==
    /\ get.pc = "rmMeta"
    /\ metaFile' = NoFile
    /\ get' = [get EXCEPT !.pc = "rmBody"]
    /\ UNCHANGED <<exceptDC, now, bodyFile, put, nextId, epoch>>

\* Get lines 148-149
GetRemoveBody ==
    /\ get.pc = "rmBody"
    /\ bodyFile' = NoFile
    /\ get' = [get EXCEPT !.pc = "done"]
    /\ UNCHANGED <<exceptDC, now, metaFile, put, nextId, epoch>>

\* Get lines 152-156
GetReadBody ==
    /\ get.pc = "readBody"
    /\ get' = [get EXCEPT !.pc = "done", !.body = bodyFile,
                          !.hit = (bodyFile.st # "absent")]
    /\ UNCHANGED <<exceptDC, now, bodyFile, metaFile, put, nextId, epoch>>

\* The caller has its answer and may call Get again.
GetReturn ==
    /\ get.pc = "done"
    /\ get' = GetIdle
    /\ UNCHANGED <<exceptDC, now, bodyFile, metaFile, put, nextId, epoch>>

Put(p) == PutOpenBody(p) \/ PutWriteBody(p) \/ PutOpenMeta(p) \/ PutWriteMeta(p)

Get == GetReadMeta \/ GetRemoveMeta \/ GetRemoveBody \/ GetReadBody \/ GetReturn

DCNext ==
    \/ Tick
    \/ \E p \in Putters : Put(p)
    \/ Get

\* ------------------------------------------------ cache header decisions
MaxDirectives == 2

\* The directives an origin may send in Cache-Control, well formed or not.
Directives ==
    {<<"no-store">>, <<"private">>, <<"public">>, <<"max-age">>,
     <<"max-age", "=", "6", "0">>, <<"Max-Age", "=", "6", "0">>,
     <<"max-age", "=", "0">>, <<"max-age", "=", "-", "5">>,
     <<"max-age", "=", "x">>, <<"max-age", "=", " ", "6", "0">>,
     <<"s-maxage", "=", "3", "0">>, <<"s-maxage", "=", "0">>}

\* The directives joined with ", ".
RECURSIVE Join(_)
Join(ds) ==
    IF ds = <<>> THEN <<>>
    ELSE IF Len(ds) = 1 THEN ds[1]
    ELSE ds[1] \o <<",", " ">> \o Join(Drop(ds, 1))

CacheControls == {Join(ds) : ds \in SeqsUpTo(Directives, MaxDirectives)}

ExpiresValues ==
    {[st |-> "absent", delta |-> 0], [st |-> "invalid", delta |-> 0]}
    \cup {[st |-> "valid", delta |-> d] : d \in {0 - 10, 0, 10}}

Statuses == {199, 200, 399, 400}

NoVerdict == [cacheable |-> FALSE, ttl |-> 0]

CCResponses ==
    {[NoResp EXCEPT !.status = st, !.cc = cc, !.expires = e, !.etag = t, !.lastmod = l] :
        st \in Statuses, cc \in CacheControls, e \in ExpiresValues,
        t \in BOOLEAN, l \in BOOLEAN}

CCInit ==
    /\ hdr \in CCResponses
    /\ verdict = NoVerdict
    /\ ccPhase = "idle"

CCIdle ==
    /\ hdr = NoResp
    /\ verdict = NoVerdict
    /\ ccPhase = "idle"

\* middleware.go lines 110-111: IsCacheable, and TTL when it says yes.
Examine ==
    /\ ccPhase = "idle"
    /\ verdict' = [cacheable |-> IsCacheable(hdr),
                   ttl |-> IF IsCacheable(hdr) THEN TTL(hdr) ELSE 0]
    /\ ccPhase' = "done"
    /\ UNCHANGED <<exceptCC, hdr>>

CCNext == Examine

\* ------------------------------------------- browser pool and shutdown
MaxPool == 2

Clients == {"r1", "r2", "r3"}

PoolSizes == 0..MaxPool

\* browser.New lines 31-33 and 113: the weight of the semaphore.
Capacity(n) == IF n <= 0 THEN 1 ELSE n

\* semaphore.Weighted: a permit can be taken when one is free.
CanAcquireAlways(free) == TRUE

CanAcquire(free) == free >= 1

\* p.sem.Release(1), deferred at line 160.
ReleaseNone(free) == free

Release(free) == free + 1

Active == {r \in Clients : rpc[r] # "idle"}

BPReset ==
    /\ rpc = [r \in Clients |-> "idle"]
    /\ rctx = {}
    /\ tabs = {}
    /\ tabDone = {}
    /\ allocDone = FALSE
    /\ result = [r \in Clients |-> "none"]
    /\ srv = "serving"
    /\ sd = "wait"
    /\ grace = FALSE
    /\ late = FALSE
    /\ aborted = FALSE

BPInit ==
    /\ poolSize \in PoolSizes
    /\ sem = Capacity(poolSize)
    /\ BPReset

BPIdle ==
    /\ poolSize = 1
    /\ sem = 1
    /\ BPReset

\* The server accepts a connection and its handler reaches Pool.RoundTrip.
Accept(r) ==
    /\ srv = "serving"
    /\ rpc[r] = "idle"
    /\ rpc' = [rpc EXCEPT ![r] = "acquire"]
    /\ late' = (late \/ allocDone)
    /\ UNCHANGED <<exceptBP, poolSize, sem, rctx, tabs, tabDone, allocDone, result,
                   srv, sd, grace, aborted>>

\* The client goes away: req.Context() is cancelled.
CancelRequest(r) ==
    /\ rpc[r] \notin {"idle", "done"}
    /\ r \notin rctx
    /\ rctx' = rctx \cup {r}
    /\ UNCHANGED <<exceptBP, poolSize, sem, rpc, tabs, tabDone, allocDone, result, srv,
                   sd, grace, late, aborted>>

\* Lines 157-160: p.sem.Acquire(req.Context(), 1) returns with a permit, or
\* with the context's error and no permit.
AcquireSlot(r) ==
    /\ rpc[r] = "acquire"
    /\ \/ /\ CanAcquire(sem)
          /\ sem' = sem - 1
          /\ rpc' = [rpc EXCEPT ![r] = "tab"]
          /\ UNCHANGED result
       \/ /\ r \in rctx
          /\ rpc' = [rpc EXCEPT ![r] = "done"]
          /\ result' = [result EXCEPT ![r] = "notAcquired"]
          /\ UNCHANGED sem
    /\ UNCHANGED <<exceptBP, poolSize, rctx, tabs, tabDone, allocDone, srv, sd, grace,
                   late, aborted>>

\* Lines 163-174: tabCtx is derived from p.allocCtx with the per-tab timeout
\* and chromedp.Run opens the tab; with p.allocCtx done no tab is opened.
NewTab(r) ==
    /\ rpc[r] = "tab"
    /\ rpc' = [rpc EXCEPT ![r] = "nav"]
    /\ IF allocDone
       THEN tabDone' = tabDone \cup {r} /\ UNCHANGED tabs
       ELSE tabDone' = tabDone \ {r} /\ tabs' = tabs \cup {r}
    /\ UNCHANGED <<exceptBP, poolSize, sem, rctx, allocDone, result, srv, sd, grace,
                   late, aborted>>

\* The timer of context.WithTimeout(p.allocCtx, p.timeout) fires.
TabTimeout(r) ==
    /\ rpc[r] = "nav"
    /\ r \notin tabDone
    /\ tabDone' = tabDone \cup {r}
    /\ UNCHANGED <<exceptBP, poolSize, sem, rpc, rctx, tabs, allocDone, result, srv, sd,
                   grace, late, aborted>>

\* Lines 174-181: chromedp.Run returns: the page, a navigation error, or the
\* error of a tabCtx that is done.
RunReturns(r) ==
    /\ rpc[r] = "nav"
    /\ \E ok \in BOOLEAN :
         result' = [result EXCEPT ![r] = IF r \in tabDone THEN "ctxDone"
                                         ELSE IF ok THEN "ok" ELSE "navFailed"]
    /\ rpc' = [rpc EXCEPT ![r] = "cancelTab"]
    /\ UNCHANGED <<exceptBP, poolSize, sem, rctx, tabs, tabDone, allocDone, srv, sd,
                   grace, late, aborted>>

\* The deferred chromedpCancel and cancel (lines 164, 168): the tab is closed.
CancelTab(r) ==
    /\ rpc[r] = "cancelTab"
    /\ tabs' = tabs \ {r}
    /\ rpc' = [rpc EXCEPT ![r] = "release"]
    /\ UNCHANGED <<exceptBP, poolSize, sem, rctx, tabDone, allocDone, result, srv, sd,
                   grace, late, aborted>>

\* The deferred p.sem.Release(1) (line 160); RoundTrip returns.
ReleaseSlot(r) ==
    /\ rpc[r] = "release"
    /\ sem' = Release(sem)
    /\ rpc' = [rpc EXCEPT ![r] = "done"]
    /\ UNCHANGED <<exceptBP, poolSize, rctx, tabs, tabDone, allocDone, result, srv, sd,
                   grace, late, aborted>>

\* The handler writes its answer and the request is over.
Respond(r) ==
    /\ rpc[r] = "done"
    /\ rpc' = [rpc EXCEPT ![r] = "idle"]
    /\ rctx' = rctx \ {r}
    /\ tabDone' = tabDone \ {r}
    /\ result' = [result EXCEPT ![r] = "none"]
    /\ UNCHANGED <<exceptBP, poolSize, sem, tabs, allocDone, srv, sd, grace, late,
                   aborted>>

\* root.go line 305: SIGINT or SIGTERM arrives.
Signal ==
    /\ sd = "wait"
    /\ sd' = "closePool"
    /\ UNCHANGED <<exceptBP, poolSize, sem, rpc, rctx, tabs, tabDone, allocDone, result,
                   srv, grace, late, aborted>>

\* root.go lines 307-310, Pool.Close: p.allocCancel() ends every tabCtx.
PoolClose ==
    /\ sd = "closePool"
    /\ allocDone' = TRUE
    /\ tabDone' = tabDone \cup {r \in Clients : rpc[r] = "nav"}
    /\ sd' = "closeServer"
    /\ UNCHANGED <<exceptBP, poolSize, sem, rpc, rctx, tabs, result, srv, grace, late,
                   aborted>>

\* root.go line 311, srv.Close(): the listener and every connection are
\* closed at once; the requests on them lose their client.
ServerClose ==
    /\ sd = "closeServer"
    /\ srv' = "closed"
    /\ aborted' = (Active # {})
    /\ rctx' = rctx \cup (Active \ {r \in Clients : rpc[r] = "done"})
    /\ sd' = "done"
    /\ UNCHANGED <<exceptBP, poolSize, sem, rpc, tabs, tabDone, allocDone, result, grace,
                   late>>

\* Time passes: a grace period after the signal is over.
GraceElapses ==
    /\ sd # "wait"
    /\ ~grace
    /\ grace' = TRUE
    /\ UNCHANGED <<exceptBP, poolSize, sem, rpc, rctx, tabs, tabDone, allocDone, result,
                   srv, sd, late, aborted>>

BPNext ==
    \/ \E r \in Clients : Accept(r)
    \/ \E r \in Clients : CancelRequest(r)
    \/ \E r \in Clients : AcquireSlot(r)
    \/ \E r \in Clients : NewTab(r)
    \/ \E r \in Clients : TabTimeout(r)
    \/ \E r \in Clients : RunReturns(r)
    \/ \E r \in Clients : CancelTab(r)
    \/ \E r \in Clients : ReleaseSlot(r)
    \/ \E r \in Clients : Respond(r)
    \/ Signal \/ PoolClose \/ ServerClose \/ GraceElapses

\* ------------------------------------------------------- output file names
\* A URL is a sequence of characters: "a" stands for letters and digits,
\* "é" for a character outside [A-Za-z0-9._-], "%" for a percent sign that
\* starts no valid escape; "s", ":" occur only as the scheme prefix s://.
MaxURL == 3

NameLimit == 200

Repeat(c, n) == [i \in 1..n |-> c]

SchemePrefix == <<"s", ":", "/", "/">>

URLChars == {"a", "/", "?", "%", "é"}

\* Short URLs of every shape, and long ones around the length limit.
RawURLs ==
    LET short == SeqsUpTo(URLChars, MaxURL)
        long == {Repeat("a", NameLimit), Repeat("a", NameLimit + 1),
                 <<"a", "/">> \o Repeat("a", NameLimit),
                 <<"%">> \o Repeat("a", NameLimit - 1),
                 <<"%">> \o Repeat("a", NameLimit)}
    IN short \cup {SchemePrefix \o u : u \in short} \cup long

\* unsafeChars: [^a-zA-Z0-9._-]
SafeChars == {"a", "s", "i", "n", "d", "e", "x", "m", ".", "_", "-"}

\* sanitize: every unsafe character becomes "_".
sanitize(s) == [i \in 1..Len(s) |-> IF s[i] \in SafeChars THEN s[i] ELSE "_"]

\* url.Parse: a malformed escape before the query is an error; after "//",
\* with or without a scheme, the host runs to the first "/" or "?"; the
\* query follows the first "?".
Parse(s) ==
    LET q == IndexAny(s, {"?"})
        beforeQ == IF q = 0 THEN s ELSE Take(s, q - 1)
        query == IF q = 0 THEN <<>> ELSE Drop(s, q)
        hier == IF Take(beforeQ, 2) = Take(SchemePrefix, 2) THEN Drop(beforeQ, 2)
                ELSE beforeQ
        abs == Take(hier, 2) = <<"/", "/">>
        rest == IF abs THEN Drop(hier, 2) ELSE hier
        slash == IndexAny(rest, {"/"})
        host == IF ~abs THEN <<>>
                ELSE IF slash = 0 THEN rest ELSE Take(rest, slash - 1)
        path == IF ~abs THEN rest
                ELSE IF slash = 0 THEN <<>> ELSE Drop(rest, slash - 1)
    IN [err |-> IndexAny(beforeQ, {"%"}) > 0, Host |-> host, Path |-> path,
        RawQuery |-> query]

\* strings.Trim(s, "/")
RECURSIVE TrimSlashes(_)
TrimSlashes(s) ==
    IF s = <<>> THEN s
    ELSE IF s[1] = "/" THEN TrimSlashes(Drop(s, 1))
    ELSE IF s[Len(s)] = "/" THEN TrimSlashes(Take(s, Len(s) - 1))
    ELSE s

\* strings.Split(s, "/")
RECURSIVE Split(_)
Split(s) ==
    LET i == IndexAny(s, {"/"})
    IN IF i = 0 THEN <<s>> ELSE <<Take(s, i - 1)>> \o Split(Drop(s, i))

\* strings.Join(parts, "__")
RECURSIVE JoinParts(_)
JoinParts(parts) ==
    IF parts = <<>> THEN <<>>
    ELSE IF Len(parts) = 1 THEN parts[1]
    ELSE parts[1] \o <<"_", "_">> \o JoinParts(Drop(parts, 1))

Extension == <<".", "m", "d">>

SafeFilename(raw) ==
    LET u == Parse(raw)
        path == TrimSlashes(u.Path)
        segs == IF path = <<>> THEN <<>>
                ELSE SelectSeq([i \in 1..Len(Split(path)) |-> sanitize(Split(path)[i])],
                               LAMBDA p : p # <<>>)
        parts == (IF u.Host # <<>> THEN <<sanitize(u.Host)>> ELSE <<>>)
                 \o segs
                 \o (IF u.RawQuery # <<>> THEN <<sanitize(u.RawQuery)>> ELSE <<>>)
        joined == JoinParts(parts)
        name == IF joined = <<>> THEN <<"i", "n", "d", "e", "x">> ELSE joined
    IN IF u.err THEN sanitize(raw) \o Extension
       ELSE Take(name, NameLimit) \o Extension

SFInit ==
    /\ rawURL0 \in RawURLs
    /\ fileName = <<>>
    /\ sfPhase = "idle"

SFIdle ==
    /\ rawURL0 = <<>>
    /\ fileName = <<>>
    /\ sfPhase = "idle"

\* Writer.Write line 86
NameFile ==
    /\ sfPhase = "idle"
    /\ fileName' = SafeFilename(rawURL0)
    /\ sfPhase' = "done"
    /\ UNCHANGED <<exceptSF, rawURL0>>

SFNext == NameFile

\* ---------------------------------------------------------- output writer
MaxWrites == 3

Writers == {"w1", "w2"}

\* The file is absent, or holds the content of Write number `by`: nothing
\* yet ("empty"), a part of it ("partial"), all of it ("full"), or bytes of
\* two Writes ("mixed").
NoOutput == [st |-> "absent", by |-> 0]

OWInit ==
    /\ outFile = NoOutput
    /\ wpc = [w \in Writers |-> "idle"]
    /\ wid = [w \in Writers |-> 0]
    /\ nextWrite = 1
    /\ seen = NoOutput

\* Writer.Write lines 86-88, first half: os.WriteFile opens the final path
\* with O_CREATE|O_TRUNC.
OpenOutput(w) ==
    /\ wpc[w] = "idle"
    /\ nextWrite <= MaxWrites
    /\ outFile' = [st |-> "empty", by |-> nextWrite]
    /\ wpc' = [wpc EXCEPT ![w] = "open"]
    /\ wid' = [wid EXCEPT ![w] = nextWrite]
    /\ nextWrite' = nextWrite + 1
    /\ UNCHANGED <<exceptOW, seen>>

\* Writer.Write line 88, second half: the content is written at offset 0 of
\* the open file and the file is closed.  The write may stop part-way; if
\* another Write has put its bytes into the file meanwhile, they may remain
\* behind this one's.
WriteOutput(w) ==
    /\ wpc[w] = "open"
    /\ \E ok \in BOOLEAN, covers \in BOOLEAN :
         outFile' = [st |-> IF outFile.by # wid[w] /\ outFile.st \in {"partial", "full", "mixed"}
                               /\ ~covers
                            THEN "mixed"
                            ELSE IF ok THEN "full" ELSE "partial",
                     by |-> wid[w]]
    /\ wpc' = [wpc EXCEPT ![w] = "idle"]
    /\ UNCHANGED <<exceptOW, wid, nextWrite, seen>>

\* A reader opens the final name and reads the file.
ReadOutput ==
    /\ seen' = outFile
    /\ UNCHANGED <<exceptOW, outFile, wpc, wid, nextWrite>>

OWNext ==
    \/ \E w \in Writers : OpenOutput(w)
    \/ \E w \in Writers : WriteOutput(w)
    \/ ReadOutput

\* --------------------------------------------------------- template store
MaxPatterns == 2

MaxCalls == 2

Schemes == {"http", "https", "ftp"}

\* Patterns as the file names give them, with and without a scheme.
Patterns ==
    {<<"h">>, <<"a">>, <<"h", "/", "a">>, <<"h", "/", "a", "/", "b">>,
     <<"http", "://", "h", "/", "a">>, <<"https", "://", "h", "/", "a">>}

TemplateBodies == {"", "t1", "t2"}

DefaultTemplates == {"", "d"}

NilStore == [nil |-> TRUE, templates |-> <<>>, defaultTemplate |-> ""]

Stores ==
    {NilStore} \cup
    {[nil |-> FALSE, templates |-> f, defaultTemplate |-> d] :
        f \in UNION {[S -> TemplateBodies] :
                        S \in {T \in SUBSET Patterns : Cardinality(T) <= MaxPatterns}},
        d \in DefaultTemplates}

Rests == {<<"h">>, <<"h", "/", "a">>, <<"h", "/", "a", "/", "b">>, <<"g", "/", "a">>}

\* The orders in which `range s.templates` may visit the patterns.
Orders(S) ==
    {o \in [1..Cardinality(S) -> S] : \A i, j \in 1..Cardinality(S) : i # j => o[i] # o[j]}

stripScheme(s) ==
    LET i == Index(s, <<"://">>)
    IN IF i > 0 THEN Drop(s, i) ELSE s

HasPrefix(s, p) == Len(p) <= Len(s) /\ Take(s, Len(p)) = p

\* Lines 77-85: the first loop, after k patterns of the order.
RECURSIVE Best(_, _, _, _)
Best(st, order, compareURL, k) ==
    IF k = 0 THEN [bestPattern |-> <<>>, bestTemplate |-> ""]
    ELSE LET prev == Best(st, order, compareURL, k - 1)
             p == stripScheme(order[k])
         IN IF HasPrefix(compareURL, p) /\ Len(p) > Len(prev.bestPattern)
            THEN [bestPattern |-> p, bestTemplate |-> st.templates[order[k]]]
            ELSE prev

\* Lines 91-99: the second loop from the k-th pattern on, then the default.
RECURSIVE HostOnly(_, _, _, _)
HostOnly(st, order, compareURL, k) ==
    IF k > Len(order) THEN st.defaultTemplate
    ELSE LET p == stripScheme(order[k])
         IN IF ~Contains(p, <<"/">>) /\ Contains(compareURL, p)
            THEN st.templates[order[k]]
            ELSE HostOnly(st, order, compareURL, k + 1)

Match(st, order, url) ==
    IF st.nil THEN ""
    ELSE LET compareURL == stripScheme(url)
             b == Best(st, order, compareURL, Len(order))
         IN IF b.bestTemplate # "" THEN b.bestTemplate
            ELSE HostOnly(st, order, compareURL, 1)

TMInit ==
    /\ tmStore \in Stores
    /\ tmRest \in Rests
    /\ tmOut = <<>>

TMIdle ==
    /\ tmStore = NilStore
    /\ tmRest = <<>>
    /\ tmOut = <<>>

\* middleware.go line 123: rp.TemplateStore.Match(req.URL.String())
MatchCall ==
    /\ Len(tmOut) < MaxCalls
    /\ \E sch \in Schemes, order \in Orders(DOMAIN tmStore.templates) :
         tmOut' = Append(tmOut, [scheme |-> sch,
                                 tpl |-> Match(tmStore, order, <<sch, "://">> \o tmRest)])
    /\ UNCHANGED <<exceptTM, tmStore, tmRest>>

TMNext == MatchCall

\* ------------------------------------------------ auto-generated templates
\* A JSON value is a primitive, an object (a map from keys to values) or an
\* array (a sequence of values).  Keys contain no dot, so a dotted path
\* "a.b" is written as the sequence of its keys <<"a", "b">>.  A template is
\* the sequence of the lines written to the strings.Builder.
MaxDepth == 3

MaxRuns == 2

Keys == {"a", "b"}

\* The order sort.Strings puts the keys in.
KeyOrder == <<"a", "b">>

Rank(k) == CHOOSE i \in 1..Len(KeyOrder) : KeyOrder[i] = k

Prim == [kind |-> "prim", val |-> <<>>]

Obj(f) == [kind |-> "obj", val |-> f]

Arr(s) == [kind |-> "arr", val |-> s]

Missing == [kind |-> "missing", val |-> <<>>]

\* Empty, primitives only, a table (same key set), and objects of different
\* key sets.
Arrays ==
    {Arr(<<>>),
     Arr(<<Prim>>),
     Arr(<<Obj(("a" :> Prim) @@ ("b" :> Prim)), Obj(("a" :> Prim) @@ ("b" :> Prim))>>),
     Arr(<<Obj("a" :> Prim), Obj(("a" :> Prim) @@ ("b" :> Prim))>>)}

Leafs == {Prim} \cup Arrays

\* Objects nested at most n deep; the sibling of a member that is an object
\* is a primitive.
RECURSIVE Objects(_)
Objects(n) ==
    IF n = 0 THEN {}
    ELSE LET M == Leafs \cup Objects(n - 1)
         IN {Obj(<<>>)}
            \cup {Obj(k :> m) : k \in Keys, m \in M}
            \cup {Obj(("a" :> p[1]) @@ ("b" :> p[2])) :
                    p \in (Leafs \X Leafs) \cup (M \X {Prim}) \cup ({Prim} \X M)}

JSONValues == Leafs \cup Objects(MaxDepth)

\* The lines of a template.
Heading(level, key) == [k |-> "heading", level |-> level, name |-> <<key>>, cols |-> <<>>]

Ref(path) == [k |-> "ref", level |-> 0, name |-> path, cols |-> <<>>]

TopRef == [k |-> "topref", level |-> 0, name |-> <<".">>, cols |-> <<>>]

Open(sectionKey) == [k |-> "open", level |-> 0, name |-> sectionKey, cols |-> <<>>]

Close(sectionKey) == [k |-> "close", level |-> 0, name |-> sectionKey, cols |-> <<>>]

TableHead(cols) == [k |-> "thead", level |-> 0, name |-> <<>>, cols |-> cols]

TableSep(n) == [k |-> "tsep", level |-> n, name |-> <<>>, cols |-> <<>>]

TableRow(cols) == [k |-> "trow", level |-> 0, name |-> <<>>, cols |-> cols]

Item == [k |-> "item", level |-> 0, name |-> <<".">>, cols |-> <<>>]

\* `for k := range m`: the keys of m in the order the map yields them.
Ranged(m, order) == SelectSeq(order, LAMBDA k : k \in DOMAIN m)

\* sort.Strings as an insertion sort on the rank of the keys.
RECURSIVE Insert(_, _)
Insert(sorted, k) ==
    IF sorted = <<>> THEN <<k>>
    ELSE IF Rank(k) <= Rank(Head(sorted)) THEN <<k>> \o sorted
    ELSE <<Head(sorted)>> \o Insert(Tail(sorted), k)

RECURSIVE SortStrings(_)
SortStrings(s) ==
    IF s = <<>> THEN <<>> ELSE Insert(SortStrings(Tail(s)), Head(s))

sortedKeysUnsorted(m, order) == Ranged(m, order)

sortedKeys(m, order) == SortStrings(Ranged(m, order))

allPrimitives(arr) == \A i \in 1..Len(arr) : arr[i].kind = "prim"

\* Lines 123-144; [ok |-> FALSE] is the nil result.
consistentObjectKeys(arr, order) ==
    IF Len(arr) = 0 \/ arr[1].kind # "obj" THEN [ok |-> FALSE, keys |-> <<>>]
    ELSE LET keys == sortedKeys(arr[1].val, order)
         IN IF \A i \in 2..Len(arr) :
                  /\ arr[i].kind = "obj"
                  /\ sortedKeys(arr[i].val, order) = keys
            THEN [ok |-> TRUE, keys |-> keys]
            ELSE [ok |-> FALSE, keys |-> <<>>]

generateArrayTemplate(arr, sectionKey, order) ==
    IF Len(arr) = 0 THEN <<Open(sectionKey), Close(sectionKey)>>
    ELSE LET cols == consistentObjectKeys(arr, order)
         IN IF cols.ok
            THEN <<TableHead(cols.keys), TableSep(Len(cols.keys)), Open(sectionKey),
                   TableRow(cols.keys), Close(sectionKey)>>
            ELSE IF allPrimitives(arr)
            THEN <<Open(sectionKey), Item, Close(sectionKey)>>
            ELSE <<Open(sectionKey), Item, Close(sectionKey)>>

RECURSIVE generateTemplateRecursive(_, _, _, _)
RECURSIVE Members(_, _, _, _, _, _)
\* Lines 55-74: the loop over the keys from the i-th on.
Members(m, keys, i, prefix, headingLevel, order) ==
    IF i > Len(keys) THEN <<>>
    ELSE LET key == keys[i]
             child == m[key]
             ref == prefix \o <<key>>
         IN <<Heading(headingLevel, key)>>
            \o (IF child.kind = "obj"
                THEN generateTemplateRecursive(child, ref, headingLevel + 1, order)
                ELSE IF child.kind = "arr"
                THEN generateArrayTemplate(child.val, <<key>>, order)
                ELSE <<Ref(ref)>>)
            \o Members(m, keys, i + 1, prefix, headingLevel, order)

generateTemplateRecursive(data, prefix, headingLevel, order) ==
    IF data.kind = "obj"
    THEN Members(data.val, sortedKeys(data.val, order), 1, prefix, headingLevel, order)
    ELSE IF data.kind = "arr"
    THEN generateArrayTemplate(data.val, <<".">>, order)
    ELSE <<TopRef>>

GenerateTemplate(data, order) == generateTemplateRecursive(data, <<>>, 2, order)

JTInit ==
    /\ jtValue \in JSONValues
    /\ jtRuns = <<>>
    /\ jtOrder = KeyOrder

JTIdle ==
    /\ jtValue = Prim
    /\ jtRuns = <<>>
    /\ jtOrder = KeyOrder

\* json.go line 29: tpl = GenerateTemplate(data)
AutoGenerate ==
    /\ Len(jtRuns) < MaxRuns
    /\ \E order \in Orders(Keys) :
         /\ jtRuns' = Append(jtRuns, GenerateTemplate(jtValue, order))
         /\ jtOrder' = order
    /\ UNCHANGED <<exceptJT, jtValue>>

JTNext == AutoGenerate

\* ----------------------------------------------------- startup of run()
\* config.Load gives the merge of defaults, file and environment; a
\* directory is "" when unset.
LoadedConfigs ==
    [cacheEnabled : BOOLEAN, cacheDir : {"", "c"},
     outputEnabled : BOOLEAN, outputDir : {"", "c"},
     convertJSON : BOOLEAN, templateDir : {"", "c"}]

FlagSets ==
    [cacheDir : {"", "f"}, outputDir : {"", "f"},
     convertJSON : BOOLEAN, templateDir : {"", "f"}]

\* root.go lines 74-112: a flag with a non-empty or true value overrides.
ApplyFlags(c, f) ==
    [cacheEnabled |-> IF f.cacheDir # "" THEN TRUE ELSE c.cacheEnabled,
     cacheDir |-> IF f.cacheDir # "" THEN f.cacheDir ELSE c.cacheDir,
     outputEnabled |-> IF f.outputDir # "" THEN TRUE ELSE c.outputEnabled,
     outputDir |-> IF f.outputDir # "" THEN f.outputDir ELSE c.outputDir,
     convertJSON |-> IF f.convertJSON THEN TRUE ELSE c.convertJSON,
     templateDir |-> IF f.templateDir # "" THEN f.templateDir ELSE c.templateDir]

\* A cache opened for any configured directory, enabled or not.
CacheWantedByDir(c) == c.cacheDir # ""

\* Line 127.
CacheWanted(c) == c.cacheEnabled /\ c.cacheDir # ""

\* Line 176.
OutputWanted(c) == c.outputEnabled /\ c.outputDir # ""

\* Line 186.
TemplatesWanted(c) == c.templateDir # ""

NotStarted ==
    [pc |-> "flags", cache |-> FALSE, output |-> FALSE, store |-> FALSE,
     ConvertJSON |-> FALSE]

CFInit ==
    /\ cfg \in LoadedConfigs
    /\ flags \in FlagSets
    /\ startup = NotStarted

CFIdle ==
    /\ cfg = [cacheEnabled |-> FALSE, cacheDir |-> "", outputEnabled |-> FALSE,
              outputDir |-> "", convertJSON |-> FALSE, templateDir |-> ""]
    /\ flags = [cacheDir |-> "", outputDir |-> "", convertJSON |-> FALSE,
                templateDir |-> ""]
    /\ startup = NotStarted

\* Lines 74-112.
Overrides ==
    /\ startup.pc = "flags"
    /\ cfg' = ApplyFlags(cfg, flags)
    /\ startup' = [startup EXCEPT !.pc = "cache"]
    /\ UNCHANGED <<exceptCF, flags>>

\* Lines 125-132: cache.New may fail, and run returns the error.
NewCache ==
    /\ startup.pc = "cache"
    /\ IF CacheWanted(cfg)
       THEN \/ startup' = [startup EXCEPT !.pc = "output", !.cache = TRUE]
            \/ startup' = [startup EXCEPT !.pc = "failed"]
       ELSE startup' = [startup EXCEPT !.pc = "output"]
    /\ UNCHANGED <<exceptCF, cfg, flags>>

\* Lines 174-182.
NewOutput ==
    /\ startup.pc = "output"
    /\ IF OutputWanted(cfg)
       THEN \/ startup' = [startup EXCEPT !.pc = "templates", !.output = TRUE]
            \/ startup' = [startup EXCEPT !.pc = "failed"]
       ELSE startup' = [startup EXCEPT !.pc = "templates"]
    /\ UNCHANGED <<exceptCF, cfg, flags>>

\* Lines 184-192.
NewTemplates ==
    /\ startup.pc = "templates"
    /\ IF TemplatesWanted(cfg)
       THEN \/ startup' = [startup EXCEPT !.pc = "options", !.store = TRUE]
            \/ startup' = [startup EXCEPT !.pc = "failed"]
       ELSE startup' = [startup EXCEPT !.pc = "options"]
    /\ UNCHANGED <<exceptCF, cfg, flags>>

\* Lines 266-286: proxy.Options and proxy.New; the proxy serves.
Serve ==
    /\ startup.pc = "options"
    /\ startup' = [startup EXCEPT !.pc = "serving", !.ConvertJSON = cfg.convertJSON]
    /\ UNCHANGED <<exceptCF, cfg, flags>>

CFNext == Overrides \/ NewCache \/ NewOutput \/ NewTemplates \/ Serve

\* ------------------------------------------------------ leaf lifetime
\* generateDomainCert sets NotAfter 24 hours after minting (mitm.go line
\* 217).  Time is abstracted to the passing of such a lifetime.
CKInit == expired = 0

\* 24 hours go by while no CONNECT is being served: every leaf minted so far
\* is past its NotAfter.
DayPasses ==
    /\ expired < Len(minted)
    /\ \A c \in Callers : pc[c] = "idle"
    /\ expired' = Len(minted)
    /\ UNCHANGED exceptCK

\* A proxy started with MITM and its own certificate directory, serving
\* across days and restarts.
CKNext ==
    \/ StartSeparate \/ Exit
    \/ \E c \in Callers : Call(c) \/ GetCertForDomain(c) \/ Finish(c)
    \/ DayPasses

\* ------------------------------------------- the request the transport gets
MaxInner == 2

\* Header field names as a client may spell them on the wire.
WireKeys ==
    {"Connection", "connection", "Keep-Alive", "keep-alive", "Proxy-Authenticate",
     "Proxy-Authorization", "proxy-authorization", "Te", "TE", "te", "Trailer",
     "Transfer-Encoding", "transfer-encoding", "Upgrade", "upgrade",
     "Accept", "accept", "X-Custom"}

\* textproto.CanonicalMIMEHeaderKey: the first letter and each letter after a
\* hyphen in upper case, the others in lower case.
CanonicalMIMEHeaderKey(k) ==
    CASE k \in {"Connection", "connection"} -> "Connection"
      [] k \in {"Keep-Alive", "keep-alive"} -> "Keep-Alive"
      [] k = "Proxy-Authenticate" -> "Proxy-Authenticate"
      [] k \in {"Proxy-Authorization", "proxy-authorization"} -> "Proxy-Authorization"
      [] k \in {"Te", "TE", "te"} -> "Te"
      [] k = "Trailer" -> "Trailer"
      [] k \in {"Transfer-Encoding", "transfer-encoding"} -> "Transfer-Encoding"
      [] k \in {"Upgrade", "upgrade"} -> "Upgrade"
      [] k \in {"Accept", "accept"} -> "Accept"
      [] OTHER -> k

\* removeHopByHop lines 259-268
hopByHop ==
    <<"Connection", "Keep-Alive", "Proxy-Authenticate", "Proxy-Authorization",
      "TE", "Trailer", "Transfer-Encoding", "Upgrade">>

\* The header fields of one request on the wire: none, any one, some pairs
\* and all of them.
WireHeaders ==
    {{}, WireKeys, {"TE", "Accept"}, {"te", "Te"}, {"connection", "X-Custom"},
     {"Upgrade", "accept"}, {"Accept", "X-Custom"}}
    \cup {{k} : k \in WireKeys}

\* http.ReadRequest: the keys of req.Header are canonical.
ParseHeader(H) == {CanonicalMIMEHeaderKey(k) : k \in H}

\* A map delete of the key as written.
DelExact(h, key) == h \ {key}

\* http.Header.Del
Del(h, key) == h \ {CanonicalMIMEHeaderKey(key)}

RECURSIVE DelAll(_, _)
DelAll(h, keys) ==
    IF keys = <<>> THEN h ELSE DelAll(Del(h, Head(keys)), Tail(keys))

\* removeHopByHop lines 269-271
removeHopByHop(h) == DelAll(h, hopByHop)

\* http.ReadRequest: the parsed request; RequestURI is the request-target as
\* it stood on the request line.
ReadRequest(r, H) ==
    [scheme |-> r.scheme, authority |-> HostHeader(r), path |-> r.path,
     RequestURI |-> URLString(r), header |-> ParseHeader(H)]

NoHanded == [scheme |-> "", authority |-> <<>>, path |-> "", RequestURI |-> <<>>,
             header |-> {}]

HHReset ==
    /\ hhPhase = "idle"
    /\ hhOuter = NoRequest
    /\ hhStatus = 0
    /\ handed = NoHanded
    /\ nHanded = 0

HHInit ==
    /\ hhCfg \in [allow : AllowLists, mitm : BOOLEAN, tls : BOOLEAN]
    /\ HHReset

HHIdle ==
    /\ hhCfg = [allow |-> <<>>, mitm |-> FALSE, tls |-> FALSE]
    /\ HHReset

\* A request that is not CONNECT: Filter.Middleware, then handleHTTP
\* (lines 131-140); the transport's answer is relayed.
ProxyPlain ==
    /\ hhPhase = "idle"
    /\ \E r \in ProxyRequests, H \in WireHeaders :
         /\ r.method # "CONNECT"
         /\ hhOuter' = r
         /\ IF ~Allowed(hhCfg.allow, rawURL(r, hhCfg.tls))
            THEN hhStatus' = 403 /\ UNCHANGED <<handed, nHanded>>
            ELSE IF ~IsAbs(r)
            THEN hhStatus' = 400 /\ UNCHANGED <<handed, nHanded>>
            ELSE LET parsed == ReadRequest(r, H)
                 IN /\ handed' = [parsed EXCEPT !.RequestURI = <<>>,
                                              !.header = removeHopByHop(parsed.header)]
                    /\ nHanded' = 1
                    /\ \E res \in TransportResults :
                         hhStatus' = IF res.err THEN 502 ELSE res.status
    /\ hhPhase' = "done"
    /\ UNCHANGED <<exceptHH, hhCfg>>

\* CONNECT with a MITM manager: Filter.Middleware, then handleConnectMITM up
\* to its loop (lines 193-227).
ProxyConnect ==
    /\ hhPhase = "idle"
    /\ hhCfg.mitm
    /\ \E r \in ProxyRequests, certOK \in BOOLEAN :
         /\ r.method = "CONNECT"
         /\ hhOuter' = r
         /\ IF ~Allowed(hhCfg.allow, rawURL(r, hhCfg.tls))
            THEN hhStatus' = 403 /\ hhPhase' = "done"
            ELSE IF ~certOK
            THEN hhStatus' = 500 /\ hhPhase' = "done"
            ELSE hhStatus' = 200 /\ hhPhase' = "session"
    /\ UNCHANGED <<exceptHH, hhCfg, handed, nHanded>>

\* One turn of the loop, lines 229-254: an inner request is read, rewritten
\* and given to the transport; the loop ends when the read or the round trip
\* fails.
ProxyInner ==
    /\ hhPhase = "session"
    /\ \/ /\ nHanded < MaxInner
          /\ \E r \in ProxyRequests, H \in WireHeaders, res \in TransportResults :
               /\ r.method # "CONNECT"
               /\ LET parsed == ReadRequest(r, H)
                  IN handed' = [parsed EXCEPT !.RequestURI = <<>>,
                                           !.scheme = "https",
                                           !.authority = HostHeader(hhOuter),
                                           !.header = removeHopByHop(parsed.header)]
               /\ nHanded' = nHanded + 1
               /\ hhPhase' = IF res.err THEN "done" ELSE "session"
       \/ /\ hhPhase' = "done"
          /\ UNCHANGED <<handed, nHanded>>
    /\ UNCHANGED <<exceptHH, hhCfg, hhOuter, hhStatus>>

\* The connection is over; the server takes the next one.
HHNextConn ==
    /\ hhPhase = "done"
    /\ hhPhase' = "idle"
    /\ hhOuter' = NoRequest
    /\ hhStatus' = 0
    /\ handed' = NoHanded
    /\ nHanded' = 0
    /\ UNCHANGED <<exceptHH, hhCfg>>

HHNext ==
    \/ ProxyPlain \/ ProxyConnect \/ ProxyInner \/ HHNextConn

\* ------------------------------------------------ connecting to the browser
\* browser.New line 81
maxRetries == 5

NewInputs ==
    [parse : BOOLEAN, literal : BOOLEAN, lookup : {"err", "none", "ok"},
     request : BOOLEAN]

NoInput == [parse |-> TRUE, literal |-> TRUE, lookup |-> "ok", request |-> TRUE]

\* What one GET of the version document yields: no answer within the client's
\* two seconds, or a status.
ProbeResults == {0, 200, 500}

\* A CancelFunc that does nothing.
cancelNoop(c) == c

\* The CancelFunc of chromedp.NewRemoteAllocator.
cancel(c) == "cancelled"

BNInit ==
    /\ newIn = NoInput
    /\ newPc = "idle"
    /\ attempt = 0
    /\ probes = 0
    /\ lastStatus = 0
    /\ allocCtx = "none"
    /\ newRet = "none"

\* New is called, lines 30-35: the allocator context is created.
NewCall ==
    /\ newPc = "idle"
    /\ newIn' \in NewInputs
    /\ newPc' = "resolve"
    /\ allocCtx' = "live"
    /\ UNCHANGED <<exceptBN, attempt, probes, lastStatus, newRet>>

\* Lines 40-82: the URL is parsed and a DNS name is resolved; either failure
\* cancels the allocator and returns the error.
NewResolve ==
    /\ newPc = "resolve"
    /\ IF ~newIn.parse \/ (~newIn.literal /\ newIn.lookup # "ok")
       THEN /\ allocCtx' = cancel(allocCtx)
            /\ newRet' = "error"
            /\ newPc' = "returned"
            /\ UNCHANGED attempt
       ELSE /\ attempt' = 1
            /\ newPc' = "loop"
            /\ UNCHANGED <<allocCtx, newRet>>
    /\ UNCHANGED <<exceptBN, newIn, probes, lastStatus>>

\* One turn of the loop, lines 85-125: the request is built and sent; status
\* 200 returns the Pool, anything else sleeps a second and goes round.
NewAttempt ==
    /\ newPc = "loop"
    /\ attempt <= maxRetries
    /\ IF ~newIn.request
       THEN /\ attempt' = attempt + 1
            /\ UNCHANGED <<probes, lastStatus, newPc, newRet>>
       ELSE /\ probes' = probes + 1
            /\ \E st \in ProbeResults :
                 /\ lastStatus' = st
                 /\ IF st = 200
                    THEN /\ newRet' = "pool"
                         /\ newPc' = "returned"
                         /\ UNCHANGED attempt
                    ELSE /\ attempt' = attempt + 1
                         /\ UNCHANGED <<newPc, newRet>>
    /\ UNCHANGED <<exceptBN, newIn, allocCtx>>

\* Lines 127-128: the loop is over; the allocator is cancelled and the last
\* error returned.
NewGiveUp ==
    /\ newPc = "loop"
    /\ attempt > maxRetries
    /\ allocCtx' = cancel(allocCtx)
    /\ newRet' = "error"
    /\ newPc' = "returned"
    /\ UNCHANGED <<exceptBN, newIn, attempt, probes, lastStatus>>

\* The caller has the result; a Pool is closed (Pool.Close, lines 132-135)
\* before New is called again.
NewDone ==
    /\ newPc = "returned"
    /\ newIn' = NoInput
    /\ newPc' = "idle"
    /\ attempt' = 0
    /\ probes' = 0
    /\ lastStatus' = 0
    /\ allocCtx' = "none"
    /\ newRet' = "none"
    /\ UNCHANGED exceptBN

BNNext ==
    \/ NewCall \/ NewResolve \/ NewAttempt \/ NewGiveUp \/ NewDone

\* ------------------------------------------------------- the plain tunnel
MaxChunks == 1

Sides == {"client", "dest"}

\* go transfer(destConn, clientConn); go transfer(clientConn, destConn)
Transfers == {"up", "down"}

Src(g) == IF g = "up" THEN "client" ELSE "dest"

Dst(g) == IF g = "up" THEN "dest" ELSE "client"

\* A transfer that closes the connection it reads and leaves the other.
closesSrcOnly == {"src"}

\* transfer lines 185-186: the deferred Close calls.
transferCloses == {"src", "dst"}

DialResults == {"refused", "connected"}

HijackResults == {"unsupported", "failed", "hijacked"}

TNInit ==
    /\ tnPhase = "idle"
    /\ tnTarget = <<>>
    /\ tnStatus = 0
    /\ hijacked = FALSE
    /\ conns = [s \in Sides |-> "none"]
    /\ peerClosed = [s \in Sides |-> FALSE]
    /\ gpc = [g \in Transfers |-> "none"]
    /\ moved = [g \in Transfers |-> 0]

\* handleConnect, lines 157-182.
TunnelConnect ==
    /\ tnPhase = "idle"
    /\ \E r \in ProxyRequests, dial \in DialResults, hj \in HijackResults :
         /\ r.method = "CONNECT"
         /\ tnTarget' = HostHeader(r)
         /\ IF dial = "refused"
            THEN /\ tnStatus' = 503
                 /\ tnPhase' = "done"
                 /\ UNCHANGED <<hijacked, conns, gpc>>
            ELSE IF hj # "hijacked"
            THEN /\ tnStatus' = 200
                 /\ tnPhase' = "done"
                 /\ conns' = [conns EXCEPT !["dest"] = "closed"]
                 /\ UNCHANGED <<hijacked, gpc>>
            ELSE /\ tnStatus' = 200
                 /\ tnPhase' = "tunnel"
                 /\ hijacked' = TRUE
                 /\ conns' = [s \in Sides |-> "open"]
                 /\ gpc' = [g \in Transfers |-> "copy"]
    /\ UNCHANGED <<exceptTN, peerClosed, moved>>

\* The remote end of one side closes its connection.
PeerCloses ==
    /\ tnPhase = "tunnel"
    /\ \E s \in Sides :
         /\ ~peerClosed[s]
         /\ peerClosed' = [peerClosed EXCEPT ![s] = TRUE]
    /\ UNCHANGED <<exceptTN, tnPhase, tnTarget, tnStatus, hijacked, conns, gpc, moved>>

\* io.Copy, line 187: a chunk read from src is written to dst.
CopyChunk(g) ==
    /\ gpc[g] = "copy"
    /\ conns[Src(g)] = "open" /\ ~peerClosed[Src(g)]
    /\ conns[Dst(g)] = "open" /\ ~peerClosed[Dst(g)]
    /\ moved[g] < MaxChunks
    /\ moved' = [moved EXCEPT ![g] = @ + 1]
    /\ UNCHANGED <<exceptTN, tnPhase, tnTarget, tnStatus, hijacked, conns, peerClosed, gpc>>

\* io.Copy returns: the read of src met the end of the stream or a closed
\* connection.
CopyEnds(g) ==
    /\ gpc[g] = "copy"
    /\ peerClosed[Src(g)] \/ conns[Src(g)] = "closed"
    /\ gpc' = [gpc EXCEPT ![g] = "closeSrc"]
    /\ UNCHANGED <<exceptTN, tnPhase, tnTarget, tnStatus, hijacked, conns, peerClosed, moved>>

\* io.Copy returns: a chunk was read and the write to dst failed.
CopyWriteFails(g) ==
    /\ gpc[g] = "copy"
    /\ conns[Src(g)] = "open" /\ ~peerClosed[Src(g)]
    /\ peerClosed[Dst(g)] \/ conns[Dst(g)] = "closed"
    /\ gpc' = [gpc EXCEPT ![g] = "closeSrc"]
    /\ UNCHANGED <<exceptTN, tnPhase, tnTarget, tnStatus, hijacked, conns, peerClosed, moved>>

\* transfer line 186, run first: src.Close()
CloseSrc(g) ==
    /\ gpc[g] = "closeSrc"
    /\ conns' = IF "src" \in transferCloses
                THEN [conns EXCEPT ![Src(g)] = "closed"] ELSE conns
    /\ gpc' = [gpc EXCEPT ![g] = "closeDst"]
    /\ UNCHANGED <<exceptTN, tnPhase, tnTarget, tnStatus, hijacked, peerClosed, moved>>

\* transfer line 185, run last: dst.Close(); the goroutine ends.
CloseDst(g) ==
    /\ gpc[g] = "closeDst"
    /\ conns' = IF "dst" \in transferCloses
                THEN [conns EXCEPT ![Dst(g)] = "closed"] ELSE conns
    /\ gpc' = [gpc EXCEPT ![g] = "exit"]
    /\ UNCHANGED <<exceptTN, tnPhase, tnTarget, tnStatus, hijacked, peerClosed, moved>>

\* Both goroutines are gone.
TunnelOver ==
    /\ tnPhase = "tunnel"
    /\ \A g \in Transfers : gpc[g] = "exit"
    /\ tnPhase' = "done"
    /\ UNCHANGED <<exceptTN, tnTarget, tnStatus, hijacked, conns, peerClosed, gpc, moved>>

\* The server takes the next CONNECT.
TNNextConn ==
    /\ tnPhase = "done"
    /\ tnPhase' = "idle"
    /\ tnTarget' = <<>>
    /\ tnStatus' = 0
    /\ hijacked' = FALSE
    /\ conns' = [s \in Sides |-> "none"]
    /\ peerClosed' = [s \in Sides |-> FALSE]
    /\ gpc' = [g \in Transfers |-> "none"]
    /\ moved' = [g \in Transfers |-> 0]
    /\ UNCHANGED exceptTN

TNNext ==
    \/ TunnelConnect \/ PeerCloses \/ TunnelOver \/ TNNextConn
    \/ \E g \in Transfers :
         CopyChunk(g) \/ CopyEnds(g) \/ CopyWriteFails(g) \/ CloseSrc(g) \/ CloseDst(g)

\* ---------------------------------------------------------- specifications
RTNext == RoundTrip \/ NextCall

InitRT == RTInit /\ CAInit /\ PXIdle /\ DCInit /\ CCIdle /\ BPIdle /\ SFIdle /\ OWInit /\ TMIdle /\ JTIdle /\ CFIdle /\ CKInit /\ HHIdle /\ BNInit /\ TNInit

SpecRT == InitRT /\ [][RTNext]_vars

RTIdle ==
    /\ rp = [MaxBodySize |-> 0, ConvertHTML |-> TRUE, ConvertJSON |-> FALSE,
             NegotiateOnly |-> FALSE, TokenCounter |-> TRUE, Cache |-> FALSE,
             OutputWriter |-> FALSE]
    /\ req = [accept |-> <<>>, url |-> ""]
    /\ inner = [err |-> FALSE, resp |-> NoResp]
    /\ out = [err |-> FALSE, resp |-> NoResp]
    /\ exitPath = "none"
    /\ cachePuts = <<>>
    /\ outputWrites = <<>>
    /\ rtPhase = "idle"
    /\ innerCalls = 0
    /\ cacheFresh = FALSE

InitCA == RTIdle /\ CAInit /\ PXIdle /\ DCInit /\ CCIdle /\ BPIdle /\ SFIdle /\ OWInit /\ TMIdle /\ JTIdle /\ CFIdle /\ CKInit /\ HHIdle /\ BNInit /\ TNInit

SpecCA == InitCA /\ [][CANext]_vars

InitPX == RTIdle /\ CAInit /\ PXInit /\ DCInit /\ CCIdle /\ BPIdle /\ SFIdle /\ OWInit /\ TMIdle /\ JTIdle /\ CFIdle /\ CKInit /\ HHIdle /\ BNInit /\ TNInit

SpecPX == InitPX /\ [][PXNext]_vars

InitDC == RTIdle /\ CAInit /\ PXIdle /\ DCInit /\ CCIdle /\ BPIdle /\ SFIdle /\ OWInit /\ TMIdle /\ JTIdle /\ CFIdle /\ CKInit /\ HHIdle /\ BNInit /\ TNInit

SpecDC == InitDC /\ [][DCNext]_vars

InitCC == RTIdle /\ CAInit /\ PXIdle /\ DCInit /\ CCInit /\ BPIdle /\ SFIdle /\ OWInit /\ TMIdle /\ JTIdle /\ CFIdle /\ CKInit /\ HHIdle /\ BNInit /\ TNInit

SpecCC == InitCC /\ [][CCNext]_vars

InitBP == RTIdle /\ CAInit /\ PXIdle /\ DCInit /\ CCIdle /\ BPInit /\ SFIdle /\ OWInit /\ TMIdle /\ JTIdle /\ CFIdle /\ CKInit /\ HHIdle /\ BNInit /\ TNInit

SpecBP == InitBP /\ [][BPNext]_vars

InitSF == RTIdle /\ CAInit /\ PXIdle /\ DCInit /\ CCIdle /\ BPIdle /\ SFInit /\ OWInit /\ TMIdle /\ JTIdle /\ CFIdle /\ CKInit /\ HHIdle /\ BNInit /\ TNInit

SpecSF == InitSF /\ [][SFNext]_vars

InitOW == RTIdle /\ CAInit /\ PXIdle /\ DCInit /\ CCIdle /\ BPIdle /\ SFIdle /\ OWInit /\ TMIdle /\ JTIdle /\ CFIdle /\ CKInit /\ HHIdle /\ BNInit /\ TNInit

SpecOW == InitOW /\ [][OWNext]_vars

InitTM == RTIdle /\ CAInit /\ PXIdle /\ DCInit /\ CCIdle /\ BPIdle /\ SFIdle /\ OWInit /\ TMInit /\ JTIdle /\ CFIdle /\ CKInit /\ HHIdle /\ BNInit /\ TNInit

SpecTM == InitTM /\ [][TMNext]_vars

InitJT == RTIdle /\ CAInit /\ PXIdle /\ DCInit /\ CCIdle /\ BPIdle /\ SFIdle /\ OWInit /\ TMIdle /\ JTInit /\ CFIdle /\ CKInit /\ HHIdle /\ BNInit /\ TNInit

SpecJT == InitJT /\ [][JTNext]_vars

RCNext == RoundTrip \/ NextCall

InitRC == RCInit /\ CAInit /\ PXIdle /\ DCInit /\ CCIdle /\ BPIdle /\ SFIdle /\ OWInit /\ TMIdle /\ JTIdle /\ CFIdle /\ CKInit /\ HHIdle /\ BNInit /\ TNInit

SpecRC == InitRC /\ [][RCNext]_vars

InitCF == RTIdle /\ CAInit /\ PXIdle /\ DCInit /\ CCIdle /\ BPIdle /\ SFIdle /\ OWInit /\ TMIdle /\ JTIdle /\ CFInit /\ CKInit /\ HHIdle /\ BNInit /\ TNInit

SpecCF == InitCF /\ [][CFNext]_vars

InitCK == RTIdle /\ CAInit /\ PXIdle /\ DCInit /\ CCIdle /\ BPIdle /\ SFIdle /\ OWInit /\ TMIdle /\ JTIdle /\ CFIdle /\ CKInit /\ HHIdle /\ BNInit /\ TNInit

SpecCK == InitCK /\ [][CKNext]_vars

WDNext ==
    \/ StartSeparate \/ Exit
    \/ \E c \in Callers : Call(c) \/ GetCertForDomain(c) \/ Finish(c)

InitWD == RTIdle /\ WDInit /\ PXIdle /\ DCInit /\ CCIdle /\ BPIdle /\ SFIdle /\ OWInit /\ TMIdle /\ JTIdle /\ CFIdle /\ CKInit /\ HHIdle /\ BNInit /\ TNInit

SpecWD == InitWD /\ [][WDNext]_vars

InitHH == RTIdle /\ CAInit /\ PXIdle /\ DCInit /\ CCIdle /\ BPIdle /\ SFIdle /\ OWInit /\ TMIdle /\ JTIdle /\ CFIdle /\ CKInit /\ HHInit /\ BNInit /\ TNInit

SpecHH == InitHH /\ [][HHNext]_vars

InitTN == RTIdle /\ CAInit /\ PXIdle /\ DCInit /\ CCIdle /\ BPIdle /\ SFIdle /\ OWInit /\ TMIdle /\ JTIdle /\ CFIdle /\ CKInit /\ HHIdle /\ BNInit /\ TNInit

\* The two transfer goroutines are scheduled: a read that can return
\* returns, and the deferred calls run.
SpecTN ==
    /\ InitTN /\ [][TNNext]_vars
    /\ \A g \in Transfers :
         WF_vars(CopyEnds(g)) /\ WF_vars(CloseSrc(g)) /\ WF_vars(CloseDst(g))

InitBN == RTIdle /\ CAInit /\ PXIdle /\ DCInit /\ CCIdle /\ BPIdle /\ SFIdle /\ OWInit /\ TMIdle /\ JTIdle /\ CFIdle /\ CKInit /\ HHIdle /\ BNInit /\ TNInit

\* New runs in the goroutine that called it: every step it can take is taken.
\* The probe is bounded by the client's two-second timeout and the sleep by
\* its one second.
SpecBN ==
    /\ InitBN /\ [][BNNext]_vars
    /\ WF_vars(NewResolve) /\ WF_vars(NewAttempt) /\ WF_vars(NewGiveUp)

\* ------------------------------------------------- properties of RoundTrip
ReturnedOK == rtPhase = "returned" /\ ~out.err

IsHTML == IsHTMLContentType(inner.resp.ctype)

IsJSON == IsJSONContentType(inner.resp.ctype)

Wants == wantsMarkdown(req.accept)

\* The bytes RoundTrip read: the decoded body, cut at MaxBodySize when set.
DecodedBytes ==
    LET decoded == ReaderOutput(inner.resp.body,
                                Decompress(inner.resp.body, inner.resp.cenc).kind).out
    IN IF rp.MaxBodySize > 0 THEN Take(decoded, rp.MaxBodySize) ELSE decoded

LengthExact ==
    /\ out.resp.clen = Itoa(Len(out.resp.body))
    /\ out.resp.ContentLength = Len(out.resp.body)

\* C1: on each of the four exit paths (unchanged passthrough, decoded
\* passthrough, conversion, converter-failure fall-through) of a response that
\* declared its Content-Length, the Content-Length header and the
\* ContentLength field both equal the number of bytes the returned body yields.
C1_ContentLengthExact ==
    (/\ ReturnedOK
     /\ exitPath \in {"unchanged", "decoded", "converted", "convertFailed"}
     /\ inner.resp.clen # NoValue)
    => LengthExact

\* C2: a response whose body RoundTrip replaced with decoded bytes (decoded
\* passthrough, conversion, converter-failure fall-through of a gzip or deflate
\* response) carries no Content-Encoding header.
C2_NoContentEncoding ==
    (/\ ReturnedOK
     /\ \/ exitPath \in {"decoded", "converted"}
        \/ /\ exitPath = "convertFailed"
           /\ ToLower(inner.resp.cenc) \in {"gzip", "deflate"})
    => out.resp.cenc = ""

\* C3: an HTML response whose body was read is converted only if HTML
\* conversion is enabled and (negotiate-only is off or Accept has
\* text/markdown), and is handed to the converter whenever that holds; with
\* conversion disabled none is converted, and under negotiate-only without the
\* Accept type the HTML bytes come back under their text/html Content-Type.
C3_HTMLConvertedIff ==
    (/\ ReturnedOK
     /\ IsHTML /\ ~IsJSON
     /\ exitPath \in {"decoded", "converted", "convertFailed"})
    => /\ exitPath = "converted"
          => (rp.ConvertHTML /\ (~rp.NegotiateOnly \/ Wants))
       /\ (rp.ConvertHTML /\ (~rp.NegotiateOnly \/ Wants))
          => exitPath \in {"converted", "convertFailed"}
       /\ (rp.NegotiateOnly /\ ~Wants)
          => /\ out.resp.body = DecodedBytes
             /\ out.resp.ctype = inner.resp.ctype

\* C4: a JSON response is converted only when JSON conversion is enabled and
\* (negotiate-only is off or Accept has text/markdown); every other JSON
\* response is returned exactly as the inner transport produced it (body,
\* Content-Type, Content-Encoding, Content-Length), and nothing is cached or
\* written for it.
C4_JSONConvertedOnlyIf ==
    (/\ ReturnedOK
     /\ IsJSON /\ ~IsHTML
     /\ ~(rp.ConvertJSON /\ (~rp.NegotiateOnly \/ Wants)))
    => /\ out.resp = inner.resp
       /\ cachePuts = <<>>
       /\ outputWrites = <<>>

\* C5 as stated: a returned response carries Vary: accept if and only if its
\* body was converted, whatever Vary value the origin sent.
C5_VaryIffConverted ==
    ReturnedOK => (out.resp.vary = "accept" <=> exitPath = "converted")

\* C5: every converted response carries Vary: accept, and a response that was
\* not converted carries exactly the Vary value the origin sent (RoundTrip
\* neither adds nor removes one).
C5_VaryAmended ==
    ReturnedOK =>
        IF exitPath = "converted"
        THEN out.resp.vary = "accept"
        ELSE out.resp.vary = inner.resp.vary

\* A conversion of a response whose origin sent no Vary: accept of its own.
C5_Witness ==
    /\ ReturnedOK
    /\ exitPath = "converted"
    /\ inner.resp.vary # "accept"
    /\ out.resp.vary = "accept"

\* C6: when the JSON or HTML converter fails, RoundTrip returns no error and a
\* response whose body is the decoded original bytes (as read under
\* MaxBodySize), whose Content-Type is the original one, whose Vary and
\* X-Token-Count are the origin's, and no output file is written.
C6_ConvertFailureFallsThrough ==
    (rtPhase = "returned" /\ exitPath = "convertFailed")
    => /\ ~out.err
       /\ out.resp.body = DecodedBytes
       /\ out.resp.ctype = inner.resp.ctype
       /\ out.resp.status = inner.resp.status
       /\ out.resp.vary = inner.resp.vary
       /\ out.resp.xtc = inner.resp.xtc
       /\ outputWrites = <<>>

\* A failed conversion of a gzip body with a token counter and an output
\* writer configured, on a response without Vary or X-Token-Count.
C6_Witness ==
    /\ rtPhase = "returned"
    /\ exitPath = "convertFailed"
    /\ rp.TokenCounter /\ rp.OutputWriter
    /\ inner.resp.cenc = "gzip"
    /\ inner.resp.vary = "" /\ inner.resp.xtc = NoValue
    /\ out.resp.body # inner.resp.body

\* C7: when decoding fails (unsupported encoding, invalid gzip header),
\* RoundTrip returns the inner response unchanged, its body still yielding
\* every byte, and nothing is cached, converted or written.
C7_DecodeFailureUnchanged ==
    (rtPhase = "returned" /\ exitPath = "decodeFailed")
    => /\ ~out.err
       /\ out.resp = inner.resp
       /\ cachePuts = <<>>
       /\ outputWrites = <<>>

\* --------------------------------------- properties of the certificate manager
\* The host a domain names, its port stripped.
HostOf(d) == IF SplitHostPort(d).err THEN d ELSE SplitHostPort(d).host

\* C8: for any interleaving of GetCertForDomain calls for one host on one
\* Manager, all callers receive the same certificate, the host is minted at
\* most once, and at most one caller writes the host's files.
C8_MintedOncePerHost ==
    /\ \A c1, c2 \in Callers :
          (pc[c1] = "done" /\ pc[c2] = "done" /\ dom[c1] = dom[c2])
          => ret[c1] = ret[c2]
    /\ \A d \in Domains : mints[d] <= 1
    /\ \A d \in Domains : Cardinality(writers[d]) <= 1

\* C9: every certificate GetCertForDomain(h) returns (minted, from the memory
\* cache, from the leaf files) has h and *.h, port stripped, among its SANs
\* and is issued by the Manager's current root.
C9_LeafOfCurrentRoot ==
    \A c \in Callers :
        pc[c] = "done"
        => /\ HostOf(dom[c]) \in minted[ret[c]].san
           /\ (<<"*", ".">> \o HostOf(dom[c])) \in minted[ret[c]].san
           /\ minted[ret[c]].issuer = mgr.caX509

\* C10: once the certificate directory holds ca-cert.pem and ca-key.pem, no
\* step (a start of the proxy in particular) replaces them, and a Manager
\* started on the directory uses the root they hold.
C10_RootKept ==
    [][(caFiles["certs"].cert.st = "pem" /\ caFiles["certs"].key.st = "pem")
       => /\ caFiles'["certs"] = caFiles["certs"]
          /\ (mgr'.up /\ mgr'.cacheDir = "certs")
             => mgr'.caX509 = caFiles["certs"].cert.id]_vars

\* C11: the leaf cache is keyed by the host with any port stripped: calls for
\* "h:4" and for "h" on one Manager return the same certificate, and the leaf
\* files on disk are named by the host alone.
C11_KeyedByHost ==
    /\ \A c1, c2 \in Callers :
          (/\ pc[c1] = "done" /\ pc[c2] = "done"
           /\ dom[c1] # dom[c2]
           /\ HostOf(dom[c1]) = HostOf(dom[c2]))
          => ret[c1] = ret[c2]
    /\ \A d \in Domains :
          (leafCert[d].st # "absent" \/ leafKey[d].st # "absent") => d = HostOf(d)

\* C12: within one MITM session the inner requests reach the transport in
\* exactly the order they were read from the TLS stream, at most one is in
\* flight, and the response to request i has been completely written before
\* request i+1 is read.
C12_SessionSequential ==
    pxOuter.method = "CONNECT" =>
        /\ \A k \in 1..Len(calls) :
              calls[k] = [idx |-> k, url |-> UpstreamURL(pxOuter, stream[k])]
        /\ inFlight <= 1
        /\ \A i \in 1..nread - 1 :
              \E k \in 1..Len(replies) : replies[k].idx = i /\ replies[k].complete

\* C13: whenever the transport round trip fails for an accepted request, a
\* plain absolute-URI request or an inner request of a MITM session, the
\* client receives a 502 for it.
C13_FailureGives502 ==
    pxPhase = "done" =>
        \A i \in failed :
            IF pxOuter.method = "CONNECT"
            THEN \E k \in 1..Len(replies) : replies[k].idx = i /\ replies[k].status = 502
            ELSE pxStatus = 502

\* C14: with a non-empty allow-list the transport is never invoked for a URL
\* that matches none of the patterns, inner MITM requests included; a plain
\* request is answered 403 exactly when its target URL matches none; an empty
\* list allows everything.
C14_FilterBeforeTransport ==
    /\ \A k \in 1..Len(calls) : Allowed(pxCfg.allow, calls[k].url)
    /\ (pxPhase = "done" /\ pxOuter.method = "GET") =>
          (pxStatus = 403 <=>
              ~Allowed(pxCfg.allow,
                       Compact(<<IF IsAbs(pxOuter) THEN pxOuter.scheme
                                 ELSE IF pxCfg.tls THEN "https" ELSE "http",
                                 "://", pxOuter.host, pxOuter.port, pxOuter.path>>)))
    /\ pxCfg.allow = <<>> => pxStatus # 403

\* C15: Put(url, b, d) followed by Get(url), with nothing else running, is a
\* hit returning b exactly when d > 0 and the clock at the Get is not past
\* the clock at the Put plus d; sub-second d and sub-second clock positions
\* included.
C15_PutThenGet ==
    (get.pc = "done" /\ get.clean /\ epoch # NoEpoch) =>
        ((get.hit /\ get.body = [st |-> "full", by |-> epoch.id, expiry |-> 0])
            <=> (epoch.d > 0 /\ get.at <= epoch.at + epoch.d))

\* C16: under any interleaving of Put and Get on one URL, overwriting Puts
\* and Puts that fail between body and metadata included, a hit returns the
\* complete body of one Put together with the expiry written by that same
\* Put.
C16_HitIsOnePut ==
    (get.pc = "done" /\ get.hit) =>
        /\ get.body.st = "full"
        /\ get.meta.st = "full"
        /\ get.body.by = get.meta.by

\* C17: Get returns a body only if both files exist and the expiry is in the
\* future; in every other case (expired or unparsable metadata, metadata
\* without body, body without metadata) it is a miss and afterwards neither
\* file remains.
C17_MissLeavesNothing ==
    (get.pc = "done" /\ get.clean) =>
        IF get.hit
        THEN /\ get.meta.st = "full" /\ get.body.st # "absent"
             /\ get.at <= get.meta.expiry
        ELSE bodyFile = NoFile /\ metaFile = NoFile

\* C18: RoundTrip writes to the cache only when the response is HTML, a cache
\* is configured and IsCacheable holds; what it stores, under the request
\* URL, is the decoded original body as read, never the converted Markdown;
\* a response with no-store leaves no entry.
C18_CacheOnlyOriginal ==
    rtPhase = "returned" =>
        /\ cachePuts # <<>> =>
              /\ IsHTML /\ rp.Cache /\ IsCacheable(inner.resp)
              /\ Len(cachePuts) = 1
              /\ cachePuts[1].url = req.url
              /\ cachePuts[1].body = DecodedBytes
        /\ Contains(LowerAll(inner.resp.cc), <<"no-store">>) => cachePuts = <<>>

\* A converted response whose stored body differs from the Markdown returned.
C18_Witness ==
    /\ rtPhase = "returned"
    /\ exitPath = "converted"
    /\ cachePuts # <<>>
    /\ cachePuts[1].body # <<>>
    /\ out.resp.body # <<>>
    /\ out.resp.body # cachePuts[1].body
    /\ inner.resp.cenc = "gzip"

\* C19: IsCacheable is true exactly when the status is in [200, 400), the
\* Cache-Control has neither no-store nor private, and at least one of:
\* Cache-Control contains max-age= or s-maxage=, Expires is a valid future
\* time, ETag or Last-Modified is present.
C19_IsCacheableExactly ==
    ccPhase = "done" =>
        (verdict.cacheable <=>
            /\ hdr.status >= 200 /\ hdr.status < 400
            /\ ~Contains(LowerAll(hdr.cc), <<"no-store">>)
            /\ ~Contains(LowerAll(hdr.cc), <<"private">>)
            /\ \/ Contains(LowerAll(hdr.cc), <<"max-age", "=">>)
               \/ Contains(LowerAll(hdr.cc), <<"s-maxage", "=">>)
               \/ hdr.expires.st = "valid" /\ hdr.expires.delta > 0
               \/ hdr.etag
               \/ hdr.lastmod)

\* C20: for a stored response TTL is s-maxage when that is a positive
\* decimal, else max-age when positive, else the time until Expires when
\* positive; the five-minute default is given only to a response that has an
\* ETag or Last-Modified, so a response whose only cache information is
\* max-age=0 never gets a positive lifetime.
C20_TTLChoice ==
    (ccPhase = "done" /\ verdict.cacheable) =>
        LET s == Index(LowerAll(hdr.cc), <<"s-maxage", "=">>)
            m == Index(LowerAll(hdr.cc), <<"max-age", "=">>)
            sSecs == IF s > 0 THEN parseMaxAge(Drop(hdr.cc, s + 1)) ELSE 0
            mSecs == IF m > 0 THEN parseMaxAge(Drop(hdr.cc, m + 1)) ELSE 0
        IN IF sSecs > 0 THEN verdict.ttl = sSecs
           ELSE IF mSecs > 0 THEN verdict.ttl = mSecs
           ELSE IF hdr.expires.st = "valid" /\ hdr.expires.delta > 0
           THEN verdict.ttl = hdr.expires.delta
           ELSE IF hdr.etag \/ hdr.lastmod THEN verdict.ttl = DefaultTTL
           ELSE verdict.ttl <= 0

\* The requests that hold a permit of the pool.
Holders == {r \in Clients : rpc[r] \in {"tab", "nav", "cancelTab", "release"}}

\* C21: the number of tabs opened by Pool.RoundTrip and not yet closed never
\* exceeds the pool size, a configured size <= 0 counting as 1; a request
\* beyond the limit waits for a permit and has no tab.
C21_TabsWithinPool ==
    /\ Cardinality(tabs) <= (IF poolSize <= 0 THEN 1 ELSE poolSize)
    /\ \A r \in Clients : rpc[r] = "acquire" => r \notin tabs

\* With a configured size of 0 one tab is open and another request waits.
C21_Witness ==
    /\ poolSize = 0
    /\ Cardinality(tabs) = 1
    /\ \E r \in Clients : rpc[r] = "acquire" /\ sem = 0

\* C22: no permit leaks: a request cancelled while waiting returns an error
\* holding none, every request that acquired one gives it back exactly once
\* on every exit path, and when no request is running all permits are free.
C22_NoPermitLeak ==
    /\ sem >= 0
    /\ sem + Cardinality(Holders) = Capacity(poolSize)
    /\ \A r \in Clients : result[r] = "notAcquired" => r \notin Holders
    /\ Active = {} => sem = Capacity(poolSize)

\* One request has returned through the done-context path, another gave up
\* waiting, and every permit is free again.
C22_Witness ==
    /\ \E r \in Clients : rpc[r] = "done" /\ result[r] = "ctxDone"
    /\ \E r \in Clients : rpc[r] = "done" /\ result[r] = "notAcquired"
    /\ sem = Capacity(poolSize)

\* C23: when a request's cancellation fires while its tab is navigating, the
\* tab operation is cancelled by it: the tab context of a cancelled,
\* navigating request is done, whether or not the timeout has expired.
C23_CancelReachesTab ==
    \A r \in Clients : (rpc[r] = "nav" /\ r \in rctx) => r \in tabDone

\* C24: after the termination signal no request in flight is cut off before
\* the grace period has elapsed, and no request is accepted once the pool
\* has been closed.
C24_GracefulShutdown ==
    /\ aborted => grace
    /\ ~late

\* C25: for every input, unparsable URLs included, SafeFilename returns a
\* name of at most NameLimit + 3 characters that ends in .md and whose other
\* characters are all in [A-Za-z0-9._-].
C25_SafeFilenameShape ==
    sfPhase = "done" =>
        /\ Len(fileName) <= NameLimit + 3
        /\ Len(fileName) >= 3
        /\ SubSeq(fileName, Len(fileName) - 2, Len(fileName)) = Extension
        /\ \A i \in 1..Len(fileName) : fileName[i] \in SafeChars

\* C26: Writer.Write is atomic per path: a reader that finds the file under
\* its final name sees the complete content of exactly one Write, never an
\* empty, truncated or mixed file.
C26_WriteAtomic ==
    seen.st \in {"absent", "full"}

\* The patterns of the store whose scheme-stripped form is a prefix of the
\* URL, those of them with the longest such form, and the host-only patterns
\* contained in the URL.
Prefixing == {p \in DOMAIN tmStore.templates : HasPrefix(tmRest, stripScheme(p))}

LongestPrefixing ==
    {p \in Prefixing : \A q \in Prefixing : Len(stripScheme(q)) <= Len(stripScheme(p))}

HostOnlyContained ==
    {p \in DOMAIN tmStore.templates :
        ~Contains(stripScheme(p), <<"/">>) /\ Contains(tmRest, stripScheme(p))}

\* C27: Match is a deterministic function of the store and the URL: two
\* calls with the same store and the same URL return the same template,
\* ties between patterns being resolved by a fixed order.
C27_MatchDeterministic ==
    \A i, j \in 1..Len(tmOut) :
        tmOut[i].scheme = tmOut[j].scheme => tmOut[i].tpl = tmOut[j].tpl

\* C28: Match is scheme-insensitive: the same URL under two different
\* schemes of {http, https, ftp} gets the same template.
C28_SchemeInsensitive ==
    \A i, j \in 1..Len(tmOut) :
        tmOut[i].scheme # tmOut[j].scheme => tmOut[i].tpl = tmOut[j].tpl

\* C29: a nil store returns the empty string; whenever some pattern is a
\* prefix of the scheme-stripped URL the result is the template of a longest
\* such pattern, whatever its body; the default is returned only when no
\* pattern prefix-matches and no host-only pattern is contained in the URL.
C29_DefaultOnlyWithoutMatch ==
    \A i \in 1..Len(tmOut) :
        IF tmStore.nil THEN tmOut[i].tpl = ""
        ELSE IF Prefixing # {}
        THEN tmOut[i].tpl \in {tmStore.templates[p] : p \in LongestPrefixing}
        ELSE IF HostOnlyContained # {}
        THEN tmOut[i].tpl \in {tmStore.templates[p] : p \in HostOnlyContained}
        ELSE tmOut[i].tpl = tmStore.defaultTemplate

\* C30: on every response RoundTrip returns, X-Token-Count, when present, is
\* a non-negative decimal integer and the response is a converted one
\* produced with a TokenCounter configured; an unconverted response never
\* carries the header, whatever headers the origin sent.
C30_TokenCountOnlyOnConverted ==
    (ReturnedOK /\ out.resp.xtc # NoValue)
    => /\ IsDecimal(out.resp.xtc)
       /\ exitPath = "converted"
       /\ rp.TokenCounter

\* What a name written in a tag resolves to from the root render context:
\* "." is the context itself, a dotted name is followed key by key.
RECURSIVE Lookup(_, _, _)
Lookup(v, name, i) ==
    IF i > Len(name) THEN v
    ELSE IF v.kind = "obj" /\ name[i] \in DOMAIN v.val
    THEN Lookup(v.val[name[i]], name, i + 1)
    ELSE Missing

Resolve(root, name) == IF name = <<".">> THEN root ELSE Lookup(root, name, 1)

\* The outline a value should give: for every key of every object reached
\* through objects, in alphabetical order and depth first, the heading level
\* (2 at the top, one more per nesting level), the key, and the dotted path
\* when the member is a primitive.
RECURSIVE Outline(_, _, _, _)
Outline(v, prefix, level, i) ==
    IF i > Len(KeyOrder) THEN <<>>
    ELSE LET key == KeyOrder[i]
         IN (IF key \in DOMAIN v.val
             THEN LET child == v.val[key]
                  IN <<[level |-> level, key |-> key,
                        ref |-> IF child.kind = "prim" THEN prefix \o <<key>> ELSE <<>>]>>
                     \o (IF child.kind = "obj"
                         THEN Outline(child, prefix \o <<key>>, level + 1, 1)
                         ELSE <<>>)
             ELSE <<>>)
            \o Outline(v, prefix, level, i + 1)

\* The outline a template has: its headings, each with the reference that
\* follows it directly, if any.
RECURSIVE TemplateOutline(_, _)
TemplateOutline(tpl, i) ==
    IF i > Len(tpl) THEN <<>>
    ELSE (IF tpl[i].k = "heading"
          THEN <<[level |-> tpl[i].level, key |-> tpl[i].name[1],
                  ref |-> IF i < Len(tpl) /\ tpl[i + 1].k = "ref"
                          THEN tpl[i + 1].name ELSE <<>>]>>
          ELSE <<>>)
         \o TemplateOutline(tpl, i + 1)

\* The paths from the root of the arrays that are members of objects, in the
\* order GenerateTemplate meets them; "." for a top-level array.
RECURSIVE ArrayPaths(_, _, _)
ArrayPaths(v, prefix, i) ==
    IF i > Len(KeyOrder) THEN <<>>
    ELSE LET key == KeyOrder[i]
         IN (IF key \in DOMAIN v.val
             THEN LET child == v.val[key]
                  IN IF child.kind = "arr" THEN <<prefix \o <<key>>>>
                     ELSE IF child.kind = "obj" THEN ArrayPaths(child, prefix \o <<key>>, 1)
                     ELSE <<>>
             ELSE <<>>)
            \o ArrayPaths(v, prefix, i + 1)

ArraysOf(v) ==
    IF v.kind = "arr" THEN << <<".">> >>
    ELSE IF v.kind = "obj" THEN ArrayPaths(v, <<>>, 1)
    ELSE <<>>

\* The names of the section tags a template opens, in order.
RECURSIVE SectionNames(_, _)
SectionNames(tpl, i) ==
    IF i > Len(tpl) THEN <<>>
    ELSE (IF tpl[i].k = "open" THEN <<tpl[i].name>> ELSE <<>>) \o SectionNames(tpl, i + 1)

\* C31: GenerateTemplate is a function of the JSON value alone: two runs on
\* the same value give the same template whatever order the maps yield their
\* keys in, and for an object the headings come in alphabetical key order at
\* every level, at depth 2 for the top-level object and one deeper per level
\* of nesting, each primitive member followed by a reference to its dotted
\* path from the root.
C31_TemplateDeterministic ==
    /\ \A i, j \in 1..Len(jtRuns) : jtRuns[i] = jtRuns[j]
    /\ \A i \in 1..Len(jtRuns) :
         jtValue.kind = "obj"
         => TemplateOutline(jtRuns[i], 1) = Outline(jtValue, <<>>, 2, 1)

\* Two runs, the second with the maps yielding their keys in reverse order,
\* on an object with two keys, nested three deep, with a primitive at the
\* third level.
C31_Witness ==
    /\ Len(jtRuns) = 2
    /\ jtOrder = <<"b", "a">>
    /\ jtValue.kind = "obj"
    /\ DOMAIN jtValue.val = Keys
    /\ \E i \in 1..Len(jtRuns[2]) :
         /\ jtRuns[2][i].k = "ref"
         /\ Len(jtRuns[2][i].name) = 3

\* C35: for every array of the value, also one that is a member of a nested
\* object, the section tag emitted for it names a path that resolves from
\* the root render context to that array.
C35_SectionResolvesToArray ==
    \A r \in 1..Len(jtRuns) :
        LET names == SectionNames(jtRuns[r], 1)
            paths == ArraysOf(jtValue)
        IN /\ Len(names) = Len(paths)
           /\ \A i \in 1..Len(names) :
                /\ Resolve(jtValue, names[i]).kind = "arr"
                /\ names[i] = paths[i]

C36_ReadWithinLimit ==
    (ReturnedOK /\ exitPath \in {"decoded", "converted", "convertFailed"})
    => LET decoded == ReaderOutput(inner.resp.body,
                                   Decompress(inner.resp.body, inner.resp.cenc).kind).out
           want == IF rp.MaxBodySize > 0
                   THEN SubSeq(decoded, 1, Min(Len(decoded), rp.MaxBodySize))
                   ELSE decoded
       IN /\ cachePuts # <<>> => cachePuts[1].body = want
          /\ exitPath \in {"decoded", "convertFailed"} => out.resp.body = want
          /\ (exitPath = "converted" /\ shouldConvertJSON(rp, req, inner.resp))
                => want # <<>>
          /\ rp.MaxBodySize > 0
                => \A i \in 1..Len(cachePuts) : Len(cachePuts[i].body) <= rp.MaxBodySize

\* A decoded body longer than the limit, cut for the cache and the client.
C36_Witness ==
    /\ ReturnedOK
    /\ exitPath = "decoded"
    /\ rp.MaxBodySize > 0
    /\ Len(ReaderOutput(inner.resp.body,
                        Decompress(inner.resp.body, inner.resp.cenc).kind).out)
          > rp.MaxBodySize
    /\ Len(out.resp.body) = rp.MaxBodySize
    /\ cachePuts # <<>>

\* C33 as stated: each of caching, output and JSON conversion is on in the
\* serving proxy exactly when both its switch and its directory are set after
\* all configuration layers; JSON conversion's directory is the template
\* directory, its component the template store.
C33_SwitchAndDirectory ==
    startup.pc = "serving" =>
        /\ startup.cache <=> (cfg.cacheEnabled /\ cfg.cacheDir # "")
        /\ startup.output <=> (cfg.outputEnabled /\ cfg.outputDir # "")
        /\ startup.ConvertJSON <=> (cfg.convertJSON /\ cfg.templateDir # "")
        /\ startup.store <=> (cfg.convertJSON /\ cfg.templateDir # "")

\* C33: caching and output are on in the serving proxy exactly when both
\* their switch and their directory are set after all configuration layers;
\* JSON conversion is on exactly when its switch is set, with or without a
\* template directory, and the template store is loaded exactly when a
\* template directory is set, with or without the switch.
C33_Amended ==
    startup.pc = "serving" =>
        /\ startup.cache <=> (cfg.cacheEnabled /\ cfg.cacheDir # "")
        /\ startup.output <=> (cfg.outputEnabled /\ cfg.outputDir # "")
        /\ startup.ConvertJSON <=> cfg.convertJSON
        /\ startup.store <=> (cfg.templateDir # "")

\* A serving proxy with caching on by --cache-dir alone, an output directory
\* left unused for want of its switch, and JSON conversion on without a
\* template directory.
C33_Witness ==
    /\ startup.pc = "serving"
    /\ startup.cache /\ flags.cacheDir # ""
    /\ cfg.outputDir # "" /\ ~cfg.outputEnabled /\ ~startup.output
    /\ startup.ConvertJSON /\ cfg.templateDir = "" /\ ~startup.store

\* C34: a Manager built without a certificate directory keeps its material
\* in memory only: its root is in no file (it was generated, not loaded, and
\* not saved), and GetCertForDomain never gets to a step that reads or
\* writes a leaf file.
C34_MemoryOnly ==
    (mgr.up /\ mgr.cacheDir = "")
    => /\ \A d \in Dirs : caFiles[d].cert # Pem(mgr.caX509)
       /\ \A c \in Callers :
            pc[c] \notin {"stat", "readCert", "readKey", "storeLoaded",
                          "createCert", "writeCert", "createKey", "writeKey"}

\* C40: GetCertForDomain never returns a leaf whose validity has ended: on
\* the step that returns, the leaf handed back is not past its NotAfter.
C40_NoExpiredLeaf ==
    [][\A c \in Callers :
          (pc[c] # "done" /\ pc'[c] = "done") => ret'[c] > expired']_vars

\* The canonical names of the hop-by-hop header fields.
HopByHopNames == {CanonicalMIMEHeaderKey(hopByHop[i]) : i \in 1..Len(hopByHop)}

\* What every request given to the transport looks like.
HandedWellFormed ==
    nHanded > 0
    => /\ handed.scheme # ""
       /\ handed.RequestURI = <<>>
       /\ handed.header \cap HopByHopNames = {}
       /\ hhOuter.method = "CONNECT"
          => handed.scheme = "https" /\ handed.authority = HostHeader(hhOuter)

\* C37 (as stated): every request given to the transport has an absolute
\* URL, an empty RequestURI and no hop-by-hop header; a plain request
\* without an absolute URI is answered 400 with no transport call; every
\* inner request of a MITM session goes out with scheme https and the
\* CONNECT target as its authority.
C37_HandedToTransport ==
    /\ HandedWellFormed
    /\ (hhPhase = "done" /\ hhOuter.method = "GET" /\ ~IsAbs(hhOuter))
       => hhStatus = 400 /\ nHanded = 0

\* C37 (amended): as above, except that a plain request without an absolute
\* URI which the allow-list rejects is answered 403 by the filter, before
\* handleHTTP sees it; in both cases the transport is not called.
C37_Amended ==
    /\ HandedWellFormed
    /\ (hhPhase = "done" /\ hhOuter.method = "GET" /\ ~IsAbs(hhOuter))
       => /\ nHanded = 0
          /\ hhStatus = IF Allowed(hhCfg.allow, rawURL(hhOuter, hhCfg.tls))
                        THEN 400 ELSE 403

\* A MITM session for g:443 has given its second inner request to the
\* transport, with the hop-by-hop fields gone and the others kept.
C37_Witness ==
    /\ hhOuter.method = "CONNECT"
    /\ nHanded = 2
    /\ handed.header = {"Accept", "X-Custom"}
    /\ handed.authority = <<"g", ":443">>
    /\ hhCfg.allow # <<>>

\* What holds of New at every moment.
NewBounded ==
    /\ probes <= maxRetries
    /\ newPc = "loop" => lastStatus # 200
    /\ newRet = "pool" => lastStatus = 200 /\ allocCtx = "live"
    /\ newRet = "error" => allocCtx = "cancelled"
    /\ (newRet = "error" /\ attempt > 0)
       => /\ attempt = maxRetries + 1
          /\ newIn.request => probes = maxRetries

TornDown ==
    /\ \A s \in Sides : conns[s] = "closed"
    /\ \A g \in Transfers : gpc[g] = "exit"

\* A failed dial is answered with an error status and touches no connection.
DialFailureClean ==
    (tnPhase = "done" /\ conns["dest"] = "none")
    => /\ tnStatus >= 400
       /\ ~hijacked
       /\ conns["client"] = "none"
       /\ \A g \in Transfers : gpc[g] = "none"

====
